---- MODULE Spec2Model ----
(***************************************************************************)
(* A model of the distributed notification system: the ingress service of  *)
(* the API gateway, the broker topology, the push and email workers, the   *)
(* FCM circuit breaker and the template service.                           *)
(*                                                                         *)
(* Every subsystem has its own next-state relation over the same state, so *)
(* that each can be explored on its own: SpecBreaker, SpecTemplate,        *)
(* SpecTemplateCache, SpecSubmit, SpecIngress, SpecStatus, SpecRouting,    *)
(* SpecWorker.                                                             *)
(***************************************************************************)
EXTENDS Integers, Sequences, FiniteSets, TLC

None == "none"
\* None where the program holds a time.
NoTime == -1

(***************************************************************************)
(* Bounds of the model.                                                    *)
(***************************************************************************)
\* The FCM breaker is explored over BreakerTickSeconds-second clock steps.
BreakerTickSeconds == 10
MaxBreakerTicks == 7
\* failure_count is an unbounded int; failing calls stop at this count.
MaxFailureCount == 7
\* Rows the templates table may hold.
MaxRows == 3
\* Calls of create_notification, concurrent or one after the other.
NumSubmits == 2
\* The gateway's key-value store is explored over half-TTL clock steps.
IngressTickSeconds == 43200
MaxIngressTicks == 2
\* Successive requests stop once this many user-directory calls have failed.
MaxDirectoryFailures == 6
\* The invocations for which a function's behaviour under with_retry is given;
\* no fewer than max_retry_attempts.
MaxInvocations == 4
\* calculate_backoff is asked for attempts 0..MaxBackoffAttempt.
MaxBackoffAttempt == 8
\* The pieces (runs of text, placeholders) of a rendered template body.
MaxTemplateTokens == 2
\* The messages with a body that is not JSON that reach the broker.
MaxGarbled == 1
\* The rate limiter is explored over RateTickSeconds-second clock steps, with
\* NumRateRequests requests of one identifier in flight at a time.
RateTickSeconds == 30
MaxRateTicks == 3
NumRateRequests == 2
\* The gateway's breaker is explored over GatewayTickSeconds-second clock
\* steps, with at most MaxGatewayInflight admitted calls pending.
GatewayTickSeconds == 30
MaxGatewayTicks == 5
MaxGatewayInflight == 2
\* The email worker's calculate_retry_delay is asked for retry counts
\* 0..MaxEmailRetryCount.
MaxEmailRetryCount == 20
\* Redis errors stop once a window has this many admissions.
MaxRateAdmitted == 5
\* settings.RATE_LIMIT_PER_MINUTE is read from the environment (100 when it
\* is not set); the gateway is explored with this quota.
RATE_LIMIT_PER_MINUTE == 3

(***************************************************************************)
(* Program constants.                                                      *)
(***************************************************************************)
\* push_service/app/config.py
circuit_breaker_failure_threshold == 5
circuit_breaker_recovery_timeout == 30
max_retry_attempts == 3
retry_initial_delay == 1
retry_max_delay == 60
retry_exponential_base == 2
\* api_gateway/app/core/config.py
NOTIFICATION_TTL_SECONDS == 86400
IDEMPOTENCY_TTL_SECONDS == 86400
MAX_RETRIES == 3
CIRCUIT_BREAKER_FAILURE_THRESHOLD == 5
CIRCUIT_BREAKER_TIMEOUT == 60
CIRCUIT_BREAKER_RECOVERY_TIMEOUT == 30
\* api_gateway/app/services/notification_service.py: the user cache's ttl
USER_CACHE_TTL_SECONDS == 300
\* api_gateway/app/core/rabbitmq.py: the priority from which a message takes
\* the priority routing key
PRIORITY_ROUTING_FROM == 5
RATE_LIMIT_WINDOW_SECONDS == 60

VARIABLES
    now,                  \* time.time(), in seconds
    fcm_circuit_breaker,  \* [state, failure_count, last_failure_time]
    cb_inflight,          \* what the function running inside call() will do
    cb_outcome,           \* how the last call() ended
    cb_consecutive_failures, \* failed calls since the last success (history)
    rows,                 \* templates_table, in id order
    tcache,               \* the template cache: cache key -> <<>> or <<dict>>
    tclient,              \* each template-service request in progress
    tresult,              \* the result of the last create, update or delete
    pc,                   \* each create_notification call's next step
    req,                  \* its NotificationRequest
    user_info,            \* its resolved user: <<>> or <<user>>
    user_service_breaker, \* its NotificationService's circuit breaker
    resp,                 \* its response
    fx,                   \* its side effects so far (history)
    kv_request,           \* Redis request:{request_id}
    kv_notification,      \* Redis notification:{notification_id}
    kv_user,              \* Redis user:{user_id}
    kv_user_notifications,\* Redis user_notifications:{user_id}
    status_result,        \* the last update_notification_status result
    queues,               \* the broker's queues
    push_job,             \* the push worker's delivery in hand: <<>> or <<job>>
    push_processed,       \* the push worker's Redis idempotency:push:{request_id}
    acked,                \* the deliveries the workers have settled (history)
    status_posts,         \* the status posts the workers have issued (history)
    email_sent,           \* the email provider's sends (history)
    directory_failures,   \* failed user-directory calls since the last
                          \* successful one, over all requests (history)
    retry_run,            \* the last with_retry call: the function's
                          \* behaviour, its invocations and the result
    backoff,              \* the last calculate_backoff call
    rendered,             \* the last render_template_with_variables call
    kv_ratelimit,         \* Redis: ratelimit:{identifier}, one identifier
    rate_call,            \* each request's position in _check_rate_limit
    rate_window,          \* history: a 60-second window and its admissions
    gateway_breaker,      \* a CircuitBreaker of the gateway, used call after call
    gateway_inflight,     \* the calls it admitted that have not ended
    gateway_call,         \* history: the last can_execute and its answer
    email_delay,          \* the email worker's last calculate_retry_delay call
    email_template_cache, \* Redis key template:{template_code}:{language}
    email_content         \* the email worker's last message: variables and send

cbVars == <<fcm_circuit_breaker, cb_inflight, cb_outcome, cb_consecutive_failures>>

tmplVars == <<rows, tcache, tclient, tresult>>

callVars == <<pc, req, user_info, user_service_breaker, resp, fx>>
kvVars == <<kv_request, kv_notification, kv_user, kv_user_notifications>>
ingressVars == <<callVars, kvVars, status_result, queues, directory_failures>>
workerVars == <<push_job, push_processed, acked, status_posts, email_sent>>
retryVars == <<retry_run, backoff>>
renderVars == <<rendered>>
rateVars == <<kv_ratelimit, rate_call, rate_window>>
gatewayBreakerVars == <<gateway_breaker, gateway_inflight, gateway_call>>
emailVars == <<email_delay, email_template_cache, email_content>>

\* What the steps of one service leave alone: the state of the others.
exceptBreaker == <<tmplVars, ingressVars, workerVars, retryVars, renderVars,
                   rateVars,
          gatewayBreakerVars,
          emailVars>>
exceptTemplate == <<now, cbVars, ingressVars, workerVars, retryVars, renderVars,
                    rateVars,
          gatewayBreakerVars,
          emailVars>>
exceptIngress == <<cbVars, tmplVars, workerVars, retryVars, renderVars, rateVars,
          gatewayBreakerVars,
          emailVars>>
exceptRetry == <<now, cbVars, tmplVars, ingressVars, workerVars, renderVars,
                 rateVars,
          gatewayBreakerVars,
          emailVars>>
exceptRender == <<now, cbVars, tmplVars, ingressVars, workerVars, retryVars,
                  rateVars,
          gatewayBreakerVars,
          emailVars>>
exceptRate == <<cbVars, tmplVars, ingressVars, workerVars, retryVars, renderVars,
          gatewayBreakerVars,
          emailVars>>
exceptWorker == <<cb_inflight, cb_outcome, cb_consecutive_failures, tmplVars,
                  callVars, directory_failures, retryVars, renderVars, rateVars,
                  kv_request, kv_user,
                  kv_user_notifications,
                  status_result,
          gatewayBreakerVars,
          emailVars>>

vars == <<now, cbVars, tmplVars, ingressVars, workerVars, retryVars,
          renderVars, rateVars,
          gatewayBreakerVars,
          emailVars>>

(***************************************************************************)
(* push_service/app/services/circuit_breaker.py                            *)
(***************************************************************************)
CircuitState == {"closed", "open", "half_open"}

\* CircuitBreaker.__init__
CircuitBreakerInit ==
    [state |-> "closed", failure_count |-> 0, last_failure_time |-> NoTime]

\* CircuitBreaker._should_attempt_reset, with `>` for `>=`
ShouldAttemptResetStrict(cb, t) ==
    IF cb.last_failure_time = NoTime
    THEN FALSE
    ELSE (t - cb.last_failure_time) > circuit_breaker_recovery_timeout

\* CircuitBreaker._should_attempt_reset
ShouldAttemptReset(cb, t) ==
    IF cb.last_failure_time = NoTime
    THEN FALSE
    ELSE (t - cb.last_failure_time) >= circuit_breaker_recovery_timeout

\* CircuitBreaker._on_success
OnSuccess(cb) ==
    [cb EXCEPT !.failure_count = 0, !.state = "closed"]

\* CircuitBreaker._on_failure
OnFailure(cb, t) ==
    LET count == cb.failure_count + 1
    IN  [state |-> IF count >= circuit_breaker_failure_threshold
                   THEN "open" ELSE cb.state,
         failure_count |-> count,
         last_failure_time |-> t]

\* CircuitBreaker.call up to the invocation of func: an open breaker either
\* moves to half_open or raises CircuitBreakerOpenError.
CallAdmits(cb, t) ==
    cb.state # "open" \/ ShouldAttemptReset(cb, t)

CallGate(cb, t) ==
    IF cb.state = "open" /\ ShouldAttemptReset(cb, t)
    THEN [cb EXCEPT !.state = "half_open"]
    ELSE cb

\* call(): the gate. The push worker is a blocking consumer, so one call is in
\* flight at a time; the health and metrics routes read the state meanwhile.
\* func's behaviour (it returns or it raises) is the environment's choice.
CallBegin ==
    /\ cb_inflight = None
    /\ IF CallAdmits(fcm_circuit_breaker, now)
       THEN /\ fcm_circuit_breaker' = CallGate(fcm_circuit_breaker, now)
            /\ \E behaviour \in {"returns", "raises"} : cb_inflight' = behaviour
            /\ cb_outcome' = "running"
       ELSE /\ cb_outcome' = "CircuitBreakerOpenError"
            /\ UNCHANGED <<fcm_circuit_breaker, cb_inflight>>
    /\ UNCHANGED <<now, cb_consecutive_failures, exceptBreaker>>

\* call(): func returned; _on_success, and the result is handed back.
CallReturns ==
    /\ cb_inflight = "returns"
    /\ fcm_circuit_breaker' = OnSuccess(fcm_circuit_breaker)
    /\ cb_inflight' = None
    /\ cb_outcome' = "returned"
    /\ cb_consecutive_failures' = 0
    /\ UNCHANGED <<now, exceptBreaker>>

\* call(): func raised; _on_failure, and the exception is raised again.
CallRaises ==
    /\ cb_inflight = "raises"
    /\ fcm_circuit_breaker.failure_count < MaxFailureCount
    /\ fcm_circuit_breaker' = OnFailure(fcm_circuit_breaker, now)
    /\ cb_inflight' = None
    /\ cb_outcome' = "raised"
    /\ cb_consecutive_failures' = cb_consecutive_failures + 1
    /\ UNCHANGED <<now, exceptBreaker>>

BreakerTick ==
    /\ now < BreakerTickSeconds * MaxBreakerTicks
    /\ now' = now + BreakerTickSeconds
    /\ UNCHANGED <<cbVars, exceptBreaker>>

(***************************************************************************)
(* template_service/app/services/template_render.py: validation            *)
(***************************************************************************)
\* What template.count('{{'), template.count('}}') and find_placeholders
\* read in a text; the texts without braces have none of them.
Scan(text) ==
    CASE text = "Hi {{name}}" ->
            [opens |-> 1, closes |-> 1, placeholders |-> <<"name">>]
      [] text = "Hi {{name" ->
            [opens |-> 1, closes |-> 0, placeholders |-> <<>>]
      [] text = "Hi {{na me}}" ->
            [opens |-> 1, closes |-> 1, placeholders |-> <<"na me">>]
      [] OTHER -> [opens |-> 0, closes |-> 0, placeholders |-> <<>>]

\* is_valid_variable_name: re.match(r'^[a-zA-Z0-9_.\|:"\']+$', name), for the
\* placeholders of the texts above
IsValidVariableName(name) == name # "na me"

\* validate_template_syntax(template)["is_valid"]; no caller in the service
ValidateTemplateSyntax(text) ==
    LET scan == Scan(text)
    IN  /\ scan.opens = scan.closes
        /\ \A i \in DOMAIN scan.placeholders :
              IsValidVariableName(scan.placeholders[i])

(***************************************************************************)
(* template_service/app/services/template_service.py                       *)
(***************************************************************************)
TemplateKeys == {<<"welcome", "en">>, <<"welcome", "fr">>}
Subjects == {"s1", "s2"}
Bodies == {"b1", "b2"}
Clients == {"c1", "c2"}
\* `version` absent: `if version` is false for None and for 0 alike.
Latest == 0
Versions == 0..MaxRows
CacheKeys == TemplateKeys \X Versions

IdleClient ==
    [pc |-> "idle", key |-> <<"welcome", "en">>, subject |-> None,
     body |-> None, current |-> 0, version |-> 0]

\* create_result, with the operation that returned it
CreateResult(op, success, error) ==
    [op |-> op, success |-> success, error |-> error]

\* template_to_dict
TemplateToDict(i) ==
    [id |-> i, key |-> rows[i].key, version |-> rows[i].version,
     subject |-> rows[i].subject, body |-> rows[i].body,
     is_active |-> rows[i].is_active]

\* The rows a statement's WHERE clause selects.
ActiveIds(key) ==
    {i \in DOMAIN rows : rows[i].key = key /\ rows[i].is_active}

\* query_template's WHERE clause: is_active always, version when given
QueryIds(key, version) ==
    {i \in ActiveIds(key) : version # Latest => rows[i].version = version}

\* Result.scalar_one_or_none: no row, the row, or MultipleResultsFound
ScalarOneOrNone(ids) ==
    IF ids = {} THEN [kind |-> "none", id |-> 0]
    ELSE IF Cardinality(ids) = 1
         THEN [kind |-> "one", id |-> CHOOSE i \in ids : TRUE]
         ELSE [kind |-> "MultipleResultsFound", id |-> 0]

\* get_existing_template without its is_active condition
GetExistingTemplateAnyRow(key) ==
    ScalarOneOrNone({i \in DOMAIN rows : rows[i].key = key})

\* get_existing_template
GetExistingTemplate(key) == ScalarOneOrNone(ActiveIds(key))

\* query_template
QueryTemplate(key, version) == ScalarOneOrNone(QueryIds(key, version))

\* create_template_cache_key
CreateTemplateCacheKey(key, version) == <<key, version>>

\* invalidate_template_cache: builds the key pattern and deletes nothing
InvalidateTemplateCache(cache, key) == cache

\* Requests that will still insert a row.
PendingInserts ==
    Cardinality({c \in Clients : tclient[c].pc \in {"create_save", "update_commit"}})

\* create_template_service up to the first commit: the check for an active row.
CreateCheck(c, key, subject, body) ==
    /\ tclient[c].pc = "idle"
    /\ Len(rows) + PendingInserts < MaxRows
    /\ LET existing == GetExistingTemplate(key)
       IN  IF existing.kind = "none"
           THEN /\ tclient' = [tclient EXCEPT ![c] =
                      [IdleClient EXCEPT !.pc = "create_save", !.key = key,
                                         !.subject = subject, !.body = body]]
                /\ UNCHANGED tresult
           ELSE /\ tresult' = CreateResult("create", FALSE,
                          IF existing.kind = "one" THEN "already exists"
                          ELSE existing.kind)
                /\ UNCHANGED tclient
    /\ UNCHANGED <<rows, tcache, exceptTemplate>>

\* create_template_service: create_template_entity, save_template, invalidate.
CreateSave(c) ==
    /\ tclient[c].pc = "create_save"
    /\ rows' = Append(rows,
          [key |-> tclient[c].key, version |-> 1,
           subject |-> tclient[c].subject, body |-> tclient[c].body,
           is_active |-> TRUE])
    /\ tcache' = InvalidateTemplateCache(tcache, tclient[c].key)
    /\ tclient' = [tclient EXCEPT ![c] = IdleClient]
    /\ tresult' = CreateResult("create", TRUE, None)
    /\ UNCHANGED exceptTemplate

\* update_template_service up to the commit: the query for the current row.
\* subject and body are the TemplateUpdate fields, None when not given.
UpdateQuery(c, key, subject, body) ==
    /\ tclient[c].pc = "idle"
    /\ Len(rows) + PendingInserts < MaxRows
    /\ LET current == QueryTemplate(key, Latest)
       IN  IF current.kind = "one"
           THEN /\ tclient' = [tclient EXCEPT ![c] =
                      [pc |-> "update_commit", key |-> key,
                       subject |-> IF subject # None THEN subject
                                   ELSE rows[current.id].subject,
                       body |-> IF body # None THEN body
                                ELSE rows[current.id].body,
                       current |-> current.id,
                       version |-> rows[current.id].version + 1]]
                /\ UNCHANGED tresult
           ELSE /\ tresult' = CreateResult("update", FALSE,
                          IF current.kind = "none" THEN "Template not found"
                          ELSE current.kind)
                /\ UNCHANGED tclient
    /\ UNCHANGED <<rows, tcache, exceptTemplate>>

\* update_template_service: create_new_version, deactivate the row read, commit
\* both, invalidate.
UpdateCommit(c) ==
    /\ tclient[c].pc = "update_commit"
    /\ rows' = Append([rows EXCEPT ![tclient[c].current].is_active = FALSE],
          [key |-> tclient[c].key, version |-> tclient[c].version,
           subject |-> tclient[c].subject, body |-> tclient[c].body,
           is_active |-> TRUE])
    /\ tcache' = InvalidateTemplateCache(tcache, tclient[c].key)
    /\ tclient' = [tclient EXCEPT ![c] = IdleClient]
    /\ tresult' = CreateResult("update", TRUE, None)
    /\ UNCHANGED exceptTemplate

\* delete_template_service up to the commit: the query for the current row.
DeleteQuery(c, key) ==
    /\ tclient[c].pc = "idle"
    /\ LET template == QueryTemplate(key, Latest)
       IN  IF template.kind = "one"
           THEN /\ tclient' = [tclient EXCEPT ![c] =
                      [IdleClient EXCEPT !.pc = "delete_commit", !.key = key,
                                         !.current = template.id]]
                /\ UNCHANGED tresult
           ELSE /\ tresult' = CreateResult("delete", FALSE,
                          IF template.kind = "none" THEN "Template not found"
                          ELSE template.kind)
                /\ UNCHANGED tclient
    /\ UNCHANGED <<rows, tcache, exceptTemplate>>

\* delete_template_service: the soft delete is committed, invalidate.
DeleteCommit(c) ==
    /\ tclient[c].pc = "delete_commit"
    /\ rows' = [rows EXCEPT ![tclient[c].current].is_active = FALSE]
    /\ tcache' = InvalidateTemplateCache(tcache, tclient[c].key)
    /\ tclient' = [tclient EXCEPT ![c] = IdleClient]
    /\ tresult' = CreateResult("delete", TRUE, None)
    /\ UNCHANGED exceptTemplate

\* get_template_service: the cache, then the database, then cache_template.
GetTemplateService(key, version) ==
    LET cache_key == CreateTemplateCacheKey(key, version)
        cached == tcache[cache_key]
        template == QueryTemplate(key, version)
    IN  IF cached # <<>>
        THEN [key |-> key, version |-> version, success |-> TRUE,
              from_cache |-> TRUE, data |-> cached, cache |-> tcache]
        ELSE IF template.kind = "one"
        THEN [key |-> key, version |-> version, success |-> TRUE,
              from_cache |-> FALSE, data |-> <<TemplateToDict(template.id)>>,
              cache |-> [tcache EXCEPT ![cache_key] =
                            <<TemplateToDict(template.id)>>]]
        ELSE [key |-> key, version |-> version, success |-> FALSE,
              from_cache |-> FALSE, data |-> <<>>, cache |-> tcache]

\* get_template_service's effect: a miss that finds the row caches it.
Get(key, version) ==
    /\ tcache' = GetTemplateService(key, version).cache
    /\ tcache' # tcache
    /\ UNCHANGED <<rows, tclient, tresult, exceptTemplate>>

\* A cache entry's one-hour TTL runs out.
CacheExpire(cache_key) ==
    /\ tcache[cache_key] # <<>>
    /\ tcache' = [tcache EXCEPT ![cache_key] = <<>>]
    /\ UNCHANGED <<rows, tclient, tresult, exceptTemplate>>

(***************************************************************************)
(* api_gateway/app/services/circuit_breaker.py                             *)
(***************************************************************************)
\* CircuitBreaker.__init__
GatewayBreakerInit ==
    [state |-> "closed", failure_count |-> 0, last_failure_time |-> NoTime]

\* CircuitBreaker.can_execute: the answer and the breaker afterwards
CanExecute(cb, t) ==
    IF cb.state = "closed" THEN [ok |-> TRUE, breaker |-> cb]
    ELSE IF cb.state = "open"
    THEN IF cb.last_failure_time # NoTime
            /\ (t - cb.last_failure_time) >= CIRCUIT_BREAKER_TIMEOUT
         THEN [ok |-> TRUE, breaker |-> [cb EXCEPT !.state = "half_open"]]
         ELSE [ok |-> FALSE, breaker |-> cb]
    ELSE [ok |-> TRUE, breaker |-> cb]

\* CircuitBreaker.record_success
RecordSuccess(cb) ==
    [cb EXCEPT !.state = IF @ = "half_open" THEN "closed" ELSE @,
               !.failure_count = 0]

\* CircuitBreaker.record_failure
RecordFailure(cb, t) ==
    LET count == cb.failure_count + 1
    IN  [state |-> IF cb.state = "half_open" THEN "open"
                   ELSE IF count >= CIRCUIT_BREAKER_FAILURE_THRESHOLD
                        THEN "open" ELSE cb.state,
         failure_count |-> count,
         last_failure_time |-> t]

(***************************************************************************)
(* api_gateway/app/core/rabbitmq.py                                        *)
(***************************************************************************)
QueueNames ==
    {"email.queue", "push.queue", "email.priority.queue",
     "push.priority.queue", "failed.queue"}

\* RabbitMQManager._declare_queues: the bindings <<queue, routing key>> on the
\* direct exchange
Bindings ==
    {<<"email.queue", "email">>, <<"push.queue", "push">>,
     <<"email.priority.queue", "email.priority">>,
     <<"push.priority.queue", "push.priority">>,
     <<"failed.queue", "failed">>}

\* A direct exchange hands a message to every queue bound with its routing key.
Route(qs, routing_key, message) ==
    [q \in QueueNames |->
        IF <<q, routing_key>> \in Bindings THEN Append(qs[q], message)
        ELSE qs[q]]

\* f"{notification_type}.priority"
PriorityKey(notification_type) ==
    IF notification_type = "email" THEN "email.priority" ELSE "push.priority"

\* RabbitMQManager.publish_to_queue's routing key, with `>` for `>=`
RoutingKeyAbove(notification_type, priority) ==
    IF priority > PRIORITY_ROUTING_FROM THEN PriorityKey(notification_type)
    ELSE notification_type

\* RabbitMQManager.publish_to_queue: the routing key
RoutingKey(notification_type, priority) ==
    IF priority >= PRIORITY_ROUTING_FROM THEN PriorityKey(notification_type)
    ELSE notification_type

\* RabbitMQManager.publish_message: the message as the broker holds it
PublishMessage(qs, routing_key, message, priority) ==
    Route(qs, routing_key,
          [body |-> message, priority |-> priority,
           routing_key |-> routing_key, delivery_mode |-> "persistent"])

\* RabbitMQManager.publish_to_queue
PublishToQueue(qs, notification_type, message, priority) ==
    PublishMessage(qs, RoutingKey(notification_type, priority), message, priority)

(***************************************************************************)
(* api_gateway/app/services/notification_service.py                        *)
(***************************************************************************)
Procs == 1..NumSubmits
NotificationTypes == {"email", "push"}
NotificationStatus == {"pending", "delivered", "failed"}
Users == {"u1", "u2", "u3", "u4"}
RequestIds == {"r1", "r2"}
Priorities == 0..10

\* The user directory's answer to GET /api/v1/users/{id}: u1 has both channels,
\* u2 has disabled both, u3 has no push token, u4 has a push token of fewer
\* than 10 characters.
UserDirectory ==
    [u \in Users |->
        [email |-> IF u = "u1" THEN "ada@x" ELSE IF u = "u2" THEN "bob@x"
                   ELSE IF u = "u3" THEN "cy@x" ELSE "dee@x",
         push_token |-> IF u = "u1" THEN "device-token-ada"
                        ELSE IF u = "u2" THEN "device-token-bob"
                        ELSE IF u = "u3" THEN None ELSE "tok-dee",
         preferences |-> [email |-> u # "u2", push |-> u # "u2"]]]

NoRequest ==
    [notification_type |-> "email", user_id |-> "u1", request_id |-> "r1",
     priority |-> 0]

NoResponse ==
    [success |-> FALSE, kind |-> None, notification_id |-> None, status |-> None]

NoEffects ==
    [publishes |-> 0, directory_calls |-> 0, cache_writes |-> 0,
     record_writes |-> 0, index_writes |-> 0, idempotency_writes |-> 0]

\* f"notif_{uuid4().hex}": the id minted by call p is unlike every other
\* call's.
NotificationId(p) == "notif_" \o ToString(p)

NotificationIds == {NotificationId(p) : p \in Procs}

\* The preference gate of create_notification, asking only the email preference
PreferenceAllowsEmailOnly(info, notification_type) ==
    ~(notification_type = "email" /\ ~info.preferences.email)

\* create_notification, step 3: the preference gate
PreferenceAllows(info, notification_type) ==
    /\ ~(notification_type = "email" /\ ~info.preferences.email)
    /\ ~(notification_type = "push" /\ ~info.preferences.push)

\* NotificationService._get_recipient
GetRecipient(info, notification_type) ==
    IF notification_type = "email" THEN info.email
    ELSE IF notification_type = "push" THEN info.push_token
    ELSE None

\* create_notification, step 6: the QueueMessage
QueueMessage(p) ==
    [notification_id |-> NotificationId(p),
     notification_type |-> req[p].notification_type,
     user_id |-> req[p].user_id,
     recipient |-> GetRecipient(user_info[p][1], req[p].notification_type),
     request_id |-> req[p].request_id,
     priority |-> req[p].priority,
     retry_count |-> 0,
     max_retries |-> MAX_RETRIES]

Respond(p, success, kind, notification_id, status) ==
    /\ resp' = [resp EXCEPT ![p] =
          [success |-> success, kind |-> kind,
           notification_id |-> notification_id, status |-> status]]
    /\ pc' = [pc EXCEPT ![p] = "done"]

\* The route handler: a NotificationService of its own for every request.
Submit(p, request) ==
    /\ pc[p] = "idle"
    /\ pc' = [pc EXCEPT ![p] = "check_idempotency"]
    /\ req' = [req EXCEPT ![p] = request]
    /\ user_service_breaker' = [user_service_breaker EXCEPT ![p] = GatewayBreakerInit]
    /\ UNCHANGED <<user_info, resp, fx, kvVars, status_result, queues, now,
                   directory_failures,
                   exceptIngress>>

\* create_notification, step 1: _check_idempotency. A key whose notification
\* record is gone gives no status data, and the call goes on.
CheckIdempotency(p) ==
    /\ pc[p] = "check_idempotency"
    /\ LET key == kv_request[req[p].request_id]
           status_data == IF key = <<>> THEN <<>>
                          ELSE kv_notification[key[1].notification_id]
       IN  IF status_data # <<>>
           THEN Respond(p, TRUE, "already_processed",
                        key[1].notification_id, status_data[1].status)
           ELSE /\ pc' = [pc EXCEPT ![p] = "get_user_info"]
                /\ UNCHANGED resp
    /\ UNCHANGED <<req, user_info, user_service_breaker, fx, kvVars,
                   status_result, queues, now, directory_failures,
                   exceptIngress>>

\* NotificationService._get_user_info: the cache, else the user service
\* behind the breaker. `outcome` is the user service's answer.
GetUserInfo(p, outcome) ==
    LET user == req[p].user_id
        gate == CanExecute(user_service_breaker[p], now)
    IN  IF kv_user[user] # <<>>
        THEN [info |-> <<kv_user[user][1].info>>, cache |-> kv_user,
              breaker |-> user_service_breaker[p], called |-> FALSE]
        ELSE IF ~gate.ok
        THEN [info |-> <<>>, cache |-> kv_user, breaker |-> gate.breaker,
              called |-> FALSE]
        ELSE IF outcome = "200"
        THEN [info |-> <<UserDirectory[user]>>,
              cache |-> [kv_user EXCEPT ![user] =
                  <<[info |-> UserDirectory[user],
                     expires |-> now + USER_CACHE_TTL_SECONDS]>>],
              breaker |-> RecordSuccess(gate.breaker), called |-> TRUE]
        ELSE [info |-> <<>>, cache |-> kv_user,
              breaker |-> RecordFailure(gate.breaker, now), called |-> TRUE]

\* create_notification, steps 2 to 6: the user lookup, the preference gate,
\* the recipient, the id and the QueueMessage.
ResolveUser(p, outcome) ==
    /\ pc[p] = "get_user_info"
    /\ LET got == GetUserInfo(p, outcome)
           notification_type == req[p].notification_type
       IN  /\ user_info' = [user_info EXCEPT ![p] = got.info]
           /\ kv_user' = got.cache
           /\ user_service_breaker' = [user_service_breaker EXCEPT ![p] = got.breaker]
           /\ directory_failures' =
                 IF ~got.called THEN directory_failures
                 ELSE IF got.info = <<>> THEN directory_failures + 1 ELSE 0
           /\ fx' = [fx EXCEPT
                        ![p].directory_calls = @ + (IF got.called THEN 1 ELSE 0),
                        ![p].cache_writes =
                            @ + (IF got.cache # kv_user THEN 1 ELSE 0)]
           /\ IF got.info = <<>>
              THEN Respond(p, FALSE, "UserServiceUnavailable", None, None)
              ELSE IF ~PreferenceAllows(got.info[1], notification_type)
              THEN Respond(p, FALSE, "BlockedByPreference", None, None)
              ELSE IF GetRecipient(got.info[1], notification_type) = None
              THEN Respond(p, FALSE, "MissingRecipient", None, None)
              ELSE /\ pc' = [pc EXCEPT ![p] = "publish"]
                   /\ UNCHANGED resp
    /\ UNCHANGED <<req, kv_request, kv_notification, kv_user_notifications,
                   status_result, queues, now, exceptIngress>>

\* A publish step that never takes the failure branch.
PublishFailedNever(published) == FALSE

\* `if not published`
PublishFailed(published) == ~published

\* The step after a publish, were the idempotency record written first.
AfterPublishIdempotencyFirst == "store_idempotency"

\* The step that follows a publish that went through: step 8.
AfterPublish == "store_status"

\* create_notification, step 7: publish_to_queue, which may fail.
Publish(p, published) ==
    /\ pc[p] = "publish"
    /\ queues' = IF published
                 THEN PublishToQueue(queues, req[p].notification_type,
                                     QueueMessage(p), req[p].priority)
                 ELSE queues
    /\ fx' = IF published THEN [fx EXCEPT ![p].publishes = @ + 1] ELSE fx
    /\ IF PublishFailed(published)
       THEN Respond(p, FALSE, "QueueUnavailable", None, None)
       ELSE /\ pc' = [pc EXCEPT ![p] = AfterPublish]
            /\ UNCHANGED resp
    /\ UNCHANGED <<req, user_info, user_service_breaker, kvVars, status_result,
                   now, directory_failures,
                   exceptIngress>>

\* _store_notification_status: the record, status pending.
StoreStatus(p) ==
    /\ pc[p] = "store_status"
    /\ kv_notification' = [kv_notification EXCEPT ![NotificationId(p)] =
          <<[notification_id |-> NotificationId(p),
             user_id |-> req[p].user_id,
             notification_type |-> req[p].notification_type,
             status |-> "pending",
             request_id |-> req[p].request_id,
             error |-> None,
             expires |-> now + NOTIFICATION_TTL_SECONDS]>>]
    /\ fx' = [fx EXCEPT ![p].record_writes = @ + 1]
    /\ pc' = [pc EXCEPT ![p] = "store_index"]
    /\ UNCHANGED <<req, user_info, user_service_breaker, resp, kv_request,
                   kv_user, kv_user_notifications, status_result, queues, now,
                   directory_failures,
                   exceptIngress>>

\* _store_notification_status: lpush on the user's list, and its expiry.
StoreIndex(p) ==
    /\ pc[p] = "store_index"
    /\ kv_user_notifications' = [kv_user_notifications EXCEPT ![req[p].user_id] =
          [list |-> <<NotificationId(p)>> \o @.list,
           expires |-> now + NOTIFICATION_TTL_SECONDS]]
    /\ fx' = [fx EXCEPT ![p].index_writes = @ + 1]
    /\ pc' = [pc EXCEPT ![p] = "store_idempotency"]
    /\ UNCHANGED <<req, user_info, user_service_breaker, resp, kv_request,
                   kv_notification, kv_user, status_result, queues, now,
                   directory_failures,
                   exceptIngress>>

\* _store_notification_status: redis_manager.client.lpush raises (the
\* connection to Redis is lost); the handler of create_notification answers.
StoreIndexRaises(p) ==
    /\ pc[p] = "store_index"
    /\ Respond(p, FALSE, "Exception", None, None)
    /\ UNCHANGED <<req, user_info, user_service_breaker, fx, kvVars,
                   status_result, queues, now, directory_failures,
                   exceptIngress>>

\* The gateway's process dies while call p is inside create_notification.
Crash(p) ==
    /\ pc[p] \notin {"idle", "done", "crashed"}
    /\ pc' = [pc EXCEPT ![p] = "crashed"]
    /\ UNCHANGED <<req, user_info, user_service_breaker, resp, fx, kvVars,
                   status_result, queues, now, directory_failures,
                   exceptIngress>>

\* create_notification, steps 9 and 10: _store_idempotency and the response.
StoreIdempotency(p) ==
    /\ pc[p] = "store_idempotency"
    /\ kv_request' = [kv_request EXCEPT ![req[p].request_id] =
          <<[notification_id |-> NotificationId(p),
             expires |-> now + IDEMPOTENCY_TTL_SECONDS]>>]
    /\ fx' = [fx EXCEPT ![p].idempotency_writes = @ + 1]
    /\ Respond(p, TRUE, "queued", NotificationId(p), "pending")
    /\ UNCHANGED <<req, user_info, user_service_breaker, kv_notification,
                   kv_user, kv_user_notifications, status_result, queues, now,
                   directory_failures,
                   exceptIngress>>

\* update_notification_status: is there a record to update
NotificationFound(kv, notification_id) ==
    /\ notification_id \in DOMAIN kv
    /\ kv[notification_id] # <<>>

\* update_notification_status: the records afterwards
UpdateStatus(kv, notification_id, status, error, t) ==
    IF ~NotificationFound(kv, notification_id) THEN kv
    ELSE [kv EXCEPT ![notification_id] =
            <<[@[1] EXCEPT
                 !.status = status,
                 !.error = IF error # None THEN error ELSE @,
                 !.expires = t + NOTIFICATION_TTL_SECONDS]>>]

\* update_notification_status, called by the status routes.
UpdateNotificationStatus(notification_id, status, error) ==
    /\ kv_notification' =
          UpdateStatus(kv_notification, notification_id, status, error, now)
    /\ status_result' =
          [notification_id |-> notification_id,
           success |-> NotificationFound(kv_notification, notification_id)]
    /\ UNCHANGED <<callVars, kv_request, kv_user, kv_user_notifications,
                   queues, now, directory_failures,
                   exceptIngress>>

\* The route handler returns the response; a call that minted no id leaves
\* its place to the next request.
Return(p) ==
    /\ pc[p] = "done"
    /\ resp[p].kind \in {"already_processed", "UserServiceUnavailable",
                          "BlockedByPreference", "MissingRecipient"}
    /\ directory_failures < MaxDirectoryFailures
    /\ pc' = [pc EXCEPT ![p] = "idle"]
    /\ req' = [req EXCEPT ![p] = NoRequest]
    /\ user_info' = [user_info EXCEPT ![p] = <<>>]
    /\ user_service_breaker' = [user_service_breaker EXCEPT ![p] = GatewayBreakerInit]
    /\ resp' = [resp EXCEPT ![p] = NoResponse]
    /\ fx' = [fx EXCEPT ![p] = NoEffects]
    /\ UNCHANGED <<kvVars, status_result, queues, now, directory_failures,
                   exceptIngress>>

\* Redis drops a key when its TTL has run out.
Live(entry, t) == IF entry # <<>> /\ entry[1].expires > t THEN entry ELSE <<>>

IngressTick ==
    /\ now < IngressTickSeconds * MaxIngressTicks
    /\ now' = now + IngressTickSeconds
    /\ kv_request' = [r \in RequestIds |-> Live(kv_request[r], now')]
    /\ kv_notification' = [n \in NotificationIds |-> Live(kv_notification[n], now')]
    /\ kv_user' = [u \in Users |-> Live(kv_user[u], now')]
    /\ kv_user_notifications' = [u \in Users |->
          IF kv_user_notifications[u].expires > now'
          THEN kv_user_notifications[u]
          ELSE [list |-> <<>>, expires |-> 0]]
    /\ UNCHANGED <<callVars, status_result, queues, directory_failures,
                   exceptIngress>>

(***************************************************************************)
(* The broker's side of a consumer.                                        *)
(***************************************************************************)
\* RabbitMQManager._declare_queues: every queue but failed.queue is declared
\* with x-dead-letter-exchange and x-dead-letter-routing-key "failed".
DeadLetterRoutingKey(queue) ==
    IF queue = "failed.queue" THEN None ELSE "failed"

\* basic_nack(requeue=False): the broker dead-letters the delivery.
Reject(qs, queue, delivery) ==
    IF DeadLetterRoutingKey(queue) = None THEN qs
    ELSE Route(qs, DeadLetterRoutingKey(queue),
               [delivery EXCEPT !.routing_key = DeadLetterRoutingKey(queue)])

Settle(service, delivery, outcome) ==
    acked' = acked \cup
        {[service |-> service,
          notification_id |-> delivery.body.notification_id,
          outcome |-> outcome]}

\* The status route's NotificationRecords after a worker's POST: `answer` is
\* "200" when the POST reaches the route, "error" when it raises, times out
\* or comes back with another status code.
StatusRoute(kv, notification_id, status, error, t, answer) ==
    IF answer = "200" THEN UpdateStatus(kv, notification_id, status, error, t)
    ELSE kv

\* A worker's POST to the gateway's status route for the message
\* `message_data`, under the id it puts in the payload; the route accepts it
\* when update_notification_status finds the record.
StatusPost(service, message_data, notification_id, status, answer) ==
    status_posts' = status_posts \cup
        {[service |-> service,
          message_id |-> message_data.notification_id,
          notification_id |-> notification_id,
          status |-> status,
          accepted |-> /\ answer = "200"
                       /\ NotificationFound(kv_notification, notification_id)]}

\* A body that is not JSON, as a publisher other than the gateway may leave
\* it on a queue; its fields stand for nothing.
GarbledBody ==
    [notification_id |-> "garbled", notification_type |-> None,
     user_id |-> None, recipient |-> None, request_id |-> None,
     priority |-> 0, retry_count |-> 0, max_retries |-> 0]

\* json.loads(body): <<>> when it raises
JsonLoads(body) == IF body = GarbledBody THEN <<>> ELSE <<body>>

\* The garbled messages the broker has held so far.
GarbledSeen ==
    Cardinality({q \in QueueNames :
                    \E i \in 1..Len(queues[q]) : queues[q][i].body = GarbledBody})
    + Cardinality({a \in acked : a.notification_id = "garbled"})

\* basic_publish of a garbled body, on the default exchange.
PublishGarbled(queue) ==
    /\ GarbledSeen < MaxGarbled
    /\ queues' = [queues EXCEPT ![queue] =
          Append(@, [body |-> GarbledBody, priority |-> 0,
                     routing_key |-> queue, delivery_mode |-> "persistent"])]
    /\ UNCHANGED <<now, fcm_circuit_breaker, kv_notification, workerVars,
                   exceptWorker>>

(***************************************************************************)
(* email_service/app/core/rabbitmq.py                                      *)
(***************************************************************************)
EmailQueues == {"email.queue", "email.priority.queue"}

\* should_retry
ShouldRetry(message_data) ==
    message_data.retry_count < message_data.max_retries

\* republish_message logs and publishes nothing.
RepublishMessage(qs, message_data, routing_key) == qs

\* retry_message: the sleep, the incremented retry_count, republish_message
RetryMessage(qs, message_data, routing_key) ==
    RepublishMessage(qs,
        [message_data EXCEPT !.retry_count = @ + 1], routing_key)

\* send_to_dlq logs and publishes nothing.
SendToDlq(qs, message_data) == qs

\* The ttl of cache_template, in seconds
TemplateCacheTtl == 3600

\* Steps of the email worker's clock
EmailCacheTickSeconds == 1800
MaxEmailCacheTicks == 4

\* settings.RETRY_DELAY_SECONDS has no default: the values explored.
RetryDelaySeconds == {1, 2, 5}

\* calculate_retry_delay, for the settings RETRY_DELAY_SECONDS = base and
\* EXPONENTIAL_BACKOFF = exponential
CalculateRetryDelay(retry_count, base, exponential) ==
    IF exponential THEN base * (2 ^ retry_count) ELSE base

CalculateRetryDelayCall(retry_count, base, exponential) ==
    /\ email_delay' = [retry_count |-> retry_count, base |-> base,
                       exponential |-> exponential,
                       delay |-> CalculateRetryDelay(retry_count, base,
                                                     exponential)]
    /\ UNCHANGED <<now, cbVars, tmplVars, ingressVars, workerVars, retryVars,
                   renderVars, rateVars, gatewayBreakerVars,
                   email_template_cache, email_content>>

\* parse_message: the dict, or None for a body that does not parse
ParseMessage(body) == JsonLoads(body)

\* An update_status_step that fails the pipeline when the status route does.
UpdateStatusStepStrict(result, answer) ==
    IF answer = "200" THEN result ELSE "status"

\* update_status_step: the pipeline's result after the status post, a success
\* whatever the status route answered.
UpdateStatusStep(result, answer) == result

\* consume_queue and handle_message: message.process(requeue=False) acks the
\* delivery when handle_message returns. `result` is the pipeline's up to
\* send_email_step: "sent", or the step that failed; `answer` is the status
\* route's to update_status_step.
HandleMessage(queue, result, answer) ==
    /\ queue \in EmailQueues
    /\ queues[queue] # <<>>
    /\ LET delivery == Head(queues[queue])
           message_data == delivery.body
           rest == [queues EXCEPT ![queue] = Tail(@)]
       IN  IF ParseMessage(message_data) = <<>>
           THEN /\ queues' = rest
                /\ Settle("email", delivery, "unparsed")
                /\ UNCHANGED <<kv_notification, status_posts, email_sent>>
           ELSE /\ IF result = "sent"
                   THEN /\ email_sent' = email_sent \cup
                              {[request_id |-> message_data.request_id,
                                notification_id |-> message_data.notification_id]}
                        /\ kv_notification' =
                              StatusRoute(kv_notification,
                                          message_data.notification_id,
                                          "delivered", None, now, answer)
                        /\ StatusPost("email", message_data,
                                      message_data.notification_id, "delivered",
                                      answer)
                   ELSE UNCHANGED <<kv_notification, status_posts, email_sent>>
                /\ LET pipeline_result ==
                           IF result = "sent"
                           THEN UpdateStatusStep(result, answer) ELSE result
                   IN  IF pipeline_result = "sent"
                       THEN /\ queues' = rest
                            /\ Settle("email", delivery, "delivered")
                       ELSE /\ queues' =
                                  IF ShouldRetry(message_data)
                                  THEN RetryMessage(rest, message_data,
                                                    delivery.routing_key)
                                  ELSE SendToDlq(rest, message_data)
                            /\ Settle("email", delivery, pipeline_result)
    /\ UNCHANGED <<now, fcm_circuit_breaker, push_job, push_processed,
                   exceptWorker>>

(***************************************************************************)
(* push_service/app/services/rabbitmq_consumer.py                          *)
(***************************************************************************)
\* IdempotencyManager.is_processed, never finding the key
IsProcessedNever(processed, request_id) == FALSE

\* IdempotencyManager.is_processed: idempotency:push:{request_id} exists
IsProcessed(processed, request_id) == request_id \in processed

\* PushNotificationRequest(**message_data): priority is Field(ge=1, le=4).
ValidPushRequest(message_data) ==
    message_data.priority >= 1 /\ message_data.priority <= 4

\* _get_user_device_token: push_token of a 200 answer, else None
GetUserDeviceToken(user_id, outcome) ==
    IF outcome = "200" THEN UserDirectory[user_id].push_token ELSE None

\* _send_to_dead_letter_queue: basic_publish on the default exchange with
\* routing key failed.queue; an exception of the publish is logged
SendToDeadLetterQueue(qs, delivery, error, published) ==
    IF published
    THEN [qs EXCEPT !["failed.queue"] =
             Append(@, [delivery EXCEPT !.routing_key = "failed.queue"])]
    ELSE qs

\* FCMService._send_fcm_message: the NonRetryableError raised inside the try
\* for a token shorter than 10 characters is caught by `except Exception` and
\* raised again as RetryableError; `fcm` is what messaging.send does.
SendFcmMessage(device_token, fcm) ==
    IF Len(device_token) < 10 THEN "RetryableError" ELSE fcm

\* process_message up to the send: parse, idempotency, device token. The
\* worker posts its status under request_id.
PushReceive(outcome, answer) ==
    /\ push_job = <<>>
    /\ queues["push.queue"] # <<>>
    /\ LET delivery == Head(queues["push.queue"])
           message_data == delivery.body
           rest == [queues EXCEPT !["push.queue"] = Tail(@)]
           device_token == GetUserDeviceToken(message_data.user_id, outcome)
       IN  IF JsonLoads(message_data) = <<>> \/ ~ValidPushRequest(message_data)
           THEN /\ queues' = Reject(rest, "push.queue", delivery)
                /\ Settle("push", delivery, "rejected")
                /\ UNCHANGED <<push_job, kv_notification, status_posts>>
           ELSE IF IsProcessed(push_processed, message_data.request_id)
           THEN /\ queues' = rest
                /\ Settle("push", delivery, "duplicate")
                /\ UNCHANGED <<push_job, kv_notification, status_posts>>
           ELSE IF device_token = None
           THEN /\ queues' = rest
                /\ kv_notification' =
                      StatusRoute(kv_notification, message_data.request_id,
                                  "failed", "No device token found", now, answer)
                /\ StatusPost("push", message_data, message_data.request_id,
                              "failed", answer)
                /\ Settle("push", delivery, "no_device_token")
                /\ UNCHANGED push_job
           ELSE /\ queues' = rest
                /\ push_job' = <<[delivery |-> delivery,
                                  device_token |-> device_token,
                                  attempt |-> 0,
                                  sends |-> 0]>>
                /\ UNCHANGED <<acked, kv_notification, status_posts>>
    /\ UNCHANGED <<now, fcm_circuit_breaker, push_processed, email_sent,
                   exceptWorker>>

(***************************************************************************)
(* push_service/app/services/retry_handler.py                              *)
(***************************************************************************)
\* with_retry's tenacity policy after the attempt-th invocation ended with
\* `outcome`, retrying on every exception
RetryDecisionAnyError(attempt, outcome) ==
    IF outcome = "ok" THEN "return"
    ELSE IF attempt >= max_retry_attempts THEN "raise"
    ELSE "retry"

\* with_retry's tenacity policy after the attempt-th invocation ended with
\* `outcome`: retry_if_exception_type(RetryableError),
\* stop_after_attempt(max_attempts), reraise
RetryDecision(attempt, outcome) ==
    IF outcome = "ok" THEN "return"
    ELSE IF outcome # "RetryableError" THEN "raise"
    ELSE IF attempt >= max_retry_attempts THEN "raise"
    ELSE "retry"

\* What the function does at each invocation.
Outcomes == {"ok", "RetryableError", "NonRetryableError"}
Behaviours == [1..MaxInvocations -> Outcomes]

RECURSIVE WithRetryFrom(_, _)
WithRetryFrom(behaviour, attempt) ==
    IF RetryDecision(attempt, behaviour[attempt]) = "retry"
    THEN WithRetryFrom(behaviour, attempt + 1)
    ELSE [invocations |-> attempt, result |-> behaviour[attempt]]

\* RetryHandler.with_retry(func): how often func is invoked, and what comes
\* back: its return value or the exception it raised last
WithRetry(behaviour) == WithRetryFrom(behaviour, 1)

WithRetryCall(behaviour) ==
    /\ retry_run' = [behaviour |-> behaviour,
                     invocations |-> WithRetry(behaviour).invocations,
                     result |-> WithRetry(behaviour).result]
    /\ UNCHANGED <<backoff, exceptRetry>>

Min(a, b) == IF a <= b THEN a ELSE b

\* RetryHandler.calculate_backoff without the min
CalculateBackoffUncapped(attempt) ==
    retry_initial_delay * (retry_exponential_base ^ attempt)

\* RetryHandler.calculate_backoff
CalculateBackoff(attempt) ==
    Min(retry_initial_delay * (retry_exponential_base ^ attempt), retry_max_delay)

CalculateBackoffCall(attempt) ==
    /\ backoff' = [attempt |-> attempt, delay |-> CalculateBackoff(attempt)]
    /\ UNCHANGED <<retry_run, exceptRetry>>

\* One attempt of retry_handler.with_retry(fcm_service.send_push): the breaker
\* gate, FCM's answer, and what process_message does with the result.
\* `answer` is the status route's, `published` whether the publish to
\* failed.queue goes through.
PushAttempt(fcm, answer, published) ==
    /\ push_job # <<>>
    /\ LET job == push_job[1]
           delivery == job.delivery
           request_id == delivery.body.request_id
           admitted == CallAdmits(fcm_circuit_breaker, now)
           gated == CallGate(fcm_circuit_breaker, now)
           sent == SendFcmMessage(job.device_token, fcm)
           result == IF admitted THEN sent ELSE "RetryableError"
           attempt == job.attempt + 1
       IN  /\ fcm_circuit_breaker' =
                 IF ~admitted THEN fcm_circuit_breaker
                 ELSE IF sent = "ok" THEN OnSuccess(gated)
                 ELSE OnFailure(gated, now)
           /\ IF result = "ok"
              THEN /\ push_processed' = push_processed \cup {request_id}
                   /\ kv_notification' =
                         StatusRoute(kv_notification, request_id,
                                     "delivered", None, now, answer)
                   /\ StatusPost("push", delivery.body, request_id, "delivered",
                                 answer)
                   /\ Settle("push", delivery, "delivered")
                   /\ push_job' = <<>>
                   /\ UNCHANGED queues
              ELSE IF result = "NonRetryableError"
              THEN /\ push_processed' = push_processed \cup {request_id}
                   /\ kv_notification' =
                         StatusRoute(kv_notification, request_id,
                                     "failed", result, now, answer)
                   /\ StatusPost("push", delivery.body, request_id, "failed",
                                 answer)
                   /\ queues' = SendToDeadLetterQueue(queues, delivery, result,
                                                      published)
                   /\ Settle("push", delivery, "non_retryable")
                   /\ push_job' = <<>>
              ELSE IF RetryDecision(attempt, result) = "raise"
              THEN /\ kv_notification' =
                         StatusRoute(kv_notification, request_id,
                                     "failed", result, now, answer)
                   /\ StatusPost("push", delivery.body, request_id, "failed",
                                 answer)
                   /\ queues' = SendToDeadLetterQueue(queues, delivery, result,
                                                      published)
                   /\ Settle("push", delivery, "retries_exhausted")
                   /\ push_job' = <<>>
                   /\ UNCHANGED push_processed
              ELSE /\ push_job' = <<[job EXCEPT
                                        !.attempt = attempt,
                                        !.sends = @ + (IF admitted THEN 1 ELSE 0)]>>
                   /\ UNCHANGED <<push_processed, kv_notification, queues, acked,
                                  status_posts>>
    /\ UNCHANGED <<now, email_sent, exceptWorker>>

(***************************************************************************)
(* template_service/app/services/template_render.py                        *)
(*                                                                         *)
(* A string is a sequence of pieces: runs of plain text and placeholders   *)
(* "{{" inner "}}".  A placeholder's inner content is var, a dot-path,     *)
(* then its |filters, then |default:"..."; `padded` says that blanks       *)
(* surround the inner content.                                             *)
(***************************************************************************)
NoInner == [var |-> <<>>, filters |-> <<>>, default |-> <<>>]

Text(t) == [kind |-> "text", text |-> t, inner |-> NoInner, padded |-> FALSE]

Placeholder(var, filters, default, padded) ==
    [kind |-> "placeholder", text |-> "",
     inner |-> [var |-> var, filters |-> filters, default |-> default],
     padded |-> padded]

\* Values of the variables map: strings, None and dictionaries.
StrValue(text) == [kind |-> "str", text |-> text, items |-> <<>>]
NoneValue == [kind |-> "none", text |-> <<>>, items |-> <<>>]
DictValue(items) == [kind |-> "dict", text |-> <<>>, items |-> items]

\* str(value)
ToStr(value) ==
    IF value.kind = "str" THEN value.text
    ELSE IF value.kind = "none" THEN <<Text("None")>>
    ELSE <<Text("{...}")>>

\* find_placeholders: the inner content of every {{...}}, stripped
IsPlaceholder(piece) == piece.kind = "placeholder"

FindPlaceholders(template) ==
    LET found == SelectSeq(template, IsPlaceholder)
    IN  [i \in 1..Len(found) |-> found[i].inner]

RECURSIVE JoinFilters(_)
JoinFilters(filters) ==
    IF filters = <<>> THEN ""
    ELSE "|" \o Head(filters) \o JoinFilters(Tail(filters))

\* key_path.split('.') of the var_name that replace_placeholder looks up:
\* everything before |default:, the filters included
SplitKeyPath(inner) ==
    IF inner.filters = <<>> THEN inner.var
    ELSE [inner.var EXCEPT ![Len(inner.var)] = @ \o JoinFilters(inner.filters)]

\* get_nested_value: reduce(lambda d, key: d[key], keys, data); a KeyError or
\* TypeError gives the default, and so does a None value.
RECURSIVE GetNestedValue(_, _, _)
GetNestedValue(data, keys, default) ==
    IF keys = <<>>
    THEN (IF data.kind = "none" THEN default ELSE data)
    ELSE IF data.kind # "dict" THEN default
    ELSE IF Head(keys) \notin DOMAIN data.items THEN default
    ELSE GetNestedValue(data.items[Head(keys)], Tail(keys), default)

\* str.replace(f"{{{{{placeholder}}}}}", replacement): the occurrences of the
\* exact text "{{" placeholder "}}"
RECURSIVE StrReplace(_, _, _)
StrReplace(template, placeholder, replacement) ==
    IF template = <<>> THEN <<>>
    ELSE (IF /\ Head(template).kind = "placeholder"
             /\ ~Head(template).padded
             /\ Head(template).inner = placeholder
          THEN replacement
          ELSE <<Head(template)>>)
         \o StrReplace(Tail(template), placeholder, replacement)

\* replace_placeholder
ReplacePlaceholder(template, placeholder, variables) ==
    LET value ==
            IF placeholder.default # <<>>
            THEN GetNestedValue(variables, SplitKeyPath(placeholder),
                                StrValue(<<Text(placeholder.default[1])>>))
            ELSE GetNestedValue(variables, SplitKeyPath(placeholder),
                     StrValue(<<Placeholder(placeholder.var, placeholder.filters,
                                            placeholder.default, FALSE)>>))
    IN  StrReplace(template, placeholder, ToStr(value))

\* render_string: reduce(replace_placeholder, placeholders, template)
RECURSIVE RenderFrom(_, _, _)
RenderFrom(text, placeholders, variables) ==
    IF placeholders = <<>> THEN text
    ELSE RenderFrom(ReplacePlaceholder(text, Head(placeholders), variables),
                    Tail(placeholders), variables)

RenderString(template, variables) ==
    RenderFrom(template, FindPlaceholders(template), variables)

\* render_template_with_variables
RenderTemplateWithVariables(subject, body, variables) ==
    [subject |-> RenderString(subject, variables),
     body |-> RenderString(body, variables)]

\* filter_upper, filter_lower, filter_capitalize on the words of the model
FilterUpper(word) ==
    CASE word \in {"Ada", "ADA", "ada"} -> "ADA"
      [] word \in {"Bo", "BO", "bo"} -> "BO"
      [] word \in {"Guest", "GUEST", "guest"} -> "GUEST"
      [] OTHER -> word

FilterLower(word) ==
    CASE word \in {"Ada", "ADA", "ada"} -> "ada"
      [] word \in {"Bo", "BO", "bo"} -> "bo"
      [] word \in {"Guest", "GUEST", "guest"} -> "guest"
      [] OTHER -> word

FilterCapitalize(word) ==
    CASE word \in {"Ada", "ADA", "ada"} -> "Ada"
      [] word \in {"Bo", "BO", "bo"} -> "Bo"
      [] word \in {"Guest", "GUEST", "guest"} -> "Guest"
      [] OTHER -> word

\* filter_truncate: value[:50] + "..." for a value longer than 50 characters
LongWord == "Ada Lovelace, Countess of Lovelace, mathematician of London"

FilterTruncate(word) ==
    CASE word = LongWord -> "Ada Lovelace, Countess of Lovelace, mathematician ..."
      [] OTHER -> word

\* DEFAULT_FILTERS, and apply_filters' identity for an unknown name
DefaultFilters(name, word) ==
    CASE name = "upper" -> FilterUpper(word)
      [] name = "lower" -> FilterLower(word)
      [] name = "capitalize" -> FilterCapitalize(word)
      [] name = "truncate" -> FilterTruncate(word)
      [] OTHER -> word

\* apply_filters: reduce over the filter names, left to right
RECURSIVE ApplyFilters(_, _)
ApplyFilters(word, filter_names) ==
    IF filter_names = <<>> THEN word
    ELSE ApplyFilters(DefaultFilters(Head(filter_names), word), Tail(filter_names))

\* The templates and variables that render is called with.
TemplatePieces ==
    {Text("Hi "),
     Placeholder(<<"name">>, <<>>, <<>>, FALSE),
     Placeholder(<<"name">>, <<>>, <<>>, TRUE),
     Placeholder(<<"x">>, <<>>, <<>>, FALSE),
     Placeholder(<<"user", "profile", "name">>, <<>>, <<>>, FALSE),
     Placeholder(<<"name", "first">>, <<>>, <<>>, FALSE),
     Placeholder(<<"name">>, <<>>, <<"Guest">>, FALSE),
     Placeholder(<<"name">>, <<"upper">>, <<>>, FALSE),
     Placeholder(<<"name">>, <<"upper">>, <<"Guest">>, FALSE)}

Templates ==
    UNION {[1..n -> TemplatePieces] : n \in 1..MaxTemplateTokens}

VariableMaps ==
    {DictValue(<<>>),
     DictValue([name |-> StrValue(<<Text("Ada")>>),
                user |-> DictValue([profile |->
                            DictValue([name |-> StrValue(<<Text("Bo")>>)])])]),
     DictValue([name |-> StrValue(<<Placeholder(<<"x">>, <<>>, <<>>, FALSE)>>),
                x |-> StrValue(<<Text("X")>>)]),
     DictValue([name |-> NoneValue])}

RenderCall(body, variables) ==
    /\ rendered' = [subject |-> <<Text("Hello")>>, body |-> body,
                    variables |-> variables,
                    result |-> RenderTemplateWithVariables(
                                   <<Text("Hello")>>, body, variables)]
    /\ UNCHANGED exceptRender

(***************************************************************************)
(* api_gateway/app/middleware/rate_limit.py                                *)
(*                                                                         *)
(* RateLimitMiddleware._check_rate_limit for the requests of one           *)
(* identifier.  Every await of a Redis command is a step at which another  *)
(* request, or the clock, may run, and at which the command may raise.     *)
(***************************************************************************)
RateRequests == 1..NumRateRequests

IdleRateCall == [pc |-> "idle", current_count |-> 0,
                 is_allowed |-> FALSE, retry_after |-> 0, raised |-> FALSE]

\* A key with an expiry is gone once the expiry has passed.
RateKey(t) ==
    IF kv_ratelimit # <<>>
       /\ (kv_ratelimit[1].expires = NoTime \/ kv_ratelimit[1].expires > t)
    THEN kv_ratelimit ELSE <<>>

\* SETEX key 60 1
Setex(seconds, value, t) == <<[value |-> value, expires |-> t + seconds]>>

\* INCR key: a missing key is created at 1 without an expiry
Incr(entry) ==
    IF entry = <<>> THEN <<[value |-> 1, expires |-> NoTime]>>
    ELSE <<[entry[1] EXCEPT !.value = @ + 1]>>

\* TTL key: -2 without the key, -1 without an expiry
Ttl(entry, t) ==
    IF entry = <<>> THEN -2
    ELSE IF entry[1].expires = NoTime THEN -1
    ELSE entry[1].expires - t

Max(a, b) == IF a >= b THEN a ELSE b

\* The admissions of the 60 seconds that began with the first admission not
\* in the window before.
Admit(window, t) ==
    IF window.start # NoTime /\ t < window.start + RATE_LIMIT_WINDOW_SECONDS
    THEN [window EXCEPT !.admitted = @ + 1]
    ELSE [start |-> t, admitted |-> 1]

\* current_count = await redis_manager.client.get(key)
RateGet(r) ==
    /\ rate_call[r].pc = "idle"
    /\ rate_call' = [rate_call EXCEPT ![r] =
           [pc |-> "got",
            current_count |-> IF RateKey(now) = <<>> THEN 0
                              ELSE RateKey(now)[1].value,
            is_allowed |-> FALSE, retry_after |-> 0, raised |-> FALSE]]
    /\ UNCHANGED <<now, kv_ratelimit, rate_window, exceptRate>>

\* current_count is None: setex(key, 60, 1); return True, 0
RateFirst(r) ==
    /\ rate_call[r].pc = "got"
    /\ rate_call[r].current_count = 0
    /\ kv_ratelimit' = Setex(RATE_LIMIT_WINDOW_SECONDS, 1, now)
    /\ rate_call' = [rate_call EXCEPT ![r].pc = "done", ![r].is_allowed = TRUE]
    /\ rate_window' = Admit(rate_window, now)
    /\ UNCHANGED <<now, exceptRate>>

\* current_count >= RATE_LIMIT_PER_MINUTE: ttl = await redis_manager.client.ttl(key)
RateExceeded(r) ==
    /\ rate_call[r].pc = "got"
    /\ rate_call[r].current_count >= RATE_LIMIT_PER_MINUTE
    /\ rate_call' = [rate_call EXCEPT ![r].pc = "ttl"]
    /\ UNCHANGED <<now, kv_ratelimit, rate_window, exceptRate>>

\* retry_after = max(ttl, 1); return False, retry_after
RateReject(r) ==
    /\ rate_call[r].pc = "ttl"
    /\ rate_call' = [rate_call EXCEPT ![r].pc = "done",
                                      ![r].retry_after = Max(Ttl(RateKey(now), now), 1)]
    /\ UNCHANGED <<now, kv_ratelimit, rate_window, exceptRate>>

\* await redis_manager.client.incr(key); return True, 0
RateIncr(r) ==
    /\ rate_call[r].pc = "got"
    /\ rate_call[r].current_count > 0
    /\ rate_call[r].current_count < RATE_LIMIT_PER_MINUTE
    /\ kv_ratelimit' = Incr(RateKey(now))
    /\ rate_call' = [rate_call EXCEPT ![r].pc = "done", ![r].is_allowed = TRUE]
    /\ rate_window' = Admit(rate_window, now)
    /\ UNCHANGED <<now, exceptRate>>

\* A check that answers 429 after an error.
OnCheckErrorClosed == [is_allowed |-> FALSE, retry_after |-> 1]

\* `except Exception`: return True, 0
OnCheckError == [is_allowed |-> TRUE, retry_after |-> 0]

\* The Redis command the request is about to await (get; setex or incr; ttl)
\* raises, and the handler of _check_rate_limit answers.
RateRaises(r) ==
    /\ rate_call[r].pc \in {"idle", "got", "ttl"}
    /\ Admit(rate_window, now).admitted <= MaxRateAdmitted
    /\ rate_call' = [rate_call EXCEPT ![r].pc = "done",
                                      ![r].is_allowed = OnCheckError.is_allowed,
                                      ![r].retry_after = OnCheckError.retry_after,
                                      ![r].raised = TRUE]
    /\ rate_window' = IF OnCheckError.is_allowed THEN Admit(rate_window, now)
                      ELSE rate_window
    /\ UNCHANGED <<now, kv_ratelimit, exceptRate>>

\* dispatch: 429 when the check does not allow, else call_next(request)
Dispatch(is_allowed) == IF ~is_allowed THEN "429" ELSE "call_next"

\* dispatch answers, and the next request of the identifier arrives.
RateReturn(r) ==
    /\ rate_call[r].pc = "done"
    /\ rate_call' = [rate_call EXCEPT ![r] = IdleRateCall]
    /\ UNCHANGED <<now, kv_ratelimit, rate_window, exceptRate>>

RateTick ==
    /\ now < RateTickSeconds * MaxRateTicks
    /\ now' = now + RateTickSeconds
    /\ kv_ratelimit' = RateKey(now')
    /\ UNCHANGED <<rate_call, rate_window, exceptRate>>

(***************************************************************************)
(* api_gateway/app/services/circuit_breaker.py, one CircuitBreaker object  *)
(* driven the way _get_user_info drives it: can_execute, then the call,    *)
(* then record_success or record_failure.                                  *)
(***************************************************************************)
exceptGatewayBreaker ==
    <<cbVars, tmplVars, ingressVars, workerVars, retryVars, renderVars, rateVars,
      emailVars>>

\* `if not self.user_service_breaker.can_execute(): return None`
GatewayCanExecute ==
    /\ gateway_inflight < MaxGatewayInflight
    /\ LET gate == CanExecute(gateway_breaker, now)
       IN  /\ gateway_breaker' = gate.breaker
           /\ gateway_inflight' = gateway_inflight + (IF gate.ok THEN 1 ELSE 0)
           /\ gateway_call' = <<[at |-> now, before |-> gateway_breaker,
                                 ok |-> gate.ok, after |-> gate.breaker]>>
    /\ UNCHANGED <<now, exceptGatewayBreaker>>

\* The user service answers 200: record_success
GatewayRecordSuccess ==
    /\ gateway_inflight > 0
    /\ gateway_breaker' = RecordSuccess(gateway_breaker)
    /\ gateway_inflight' = gateway_inflight - 1
    /\ UNCHANGED <<now, gateway_call, exceptGatewayBreaker>>

\* The user service answers another status, or the call raises: record_failure
GatewayRecordFailure ==
    /\ gateway_inflight > 0
    /\ gateway_breaker.failure_count < MaxFailureCount
    /\ gateway_breaker' = RecordFailure(gateway_breaker, now)
    /\ gateway_inflight' = gateway_inflight - 1
    /\ UNCHANGED <<now, gateway_call, exceptGatewayBreaker>>

\* time.time() advances.
GatewayTick ==
    /\ now < MaxGatewayTicks * GatewayTickSeconds
    /\ now' = now + GatewayTickSeconds
    /\ UNCHANGED <<gatewayBreakerVars, exceptGatewayBreaker>>

(***************************************************************************)
(* The initial state: every service freshly started.                       *)
(***************************************************************************)
Init ==
    /\ now = 0
    /\ fcm_circuit_breaker = CircuitBreakerInit
    /\ cb_inflight = None
    /\ cb_outcome = None
    /\ cb_consecutive_failures = 0
    /\ rows = <<>>
    /\ tcache = [k \in CacheKeys |-> <<>>]
    /\ tclient = [c \in Clients |-> IdleClient]
    /\ tresult = CreateResult(None, TRUE, None)
    /\ pc = [p \in Procs |-> "idle"]
    /\ req = [p \in Procs |-> NoRequest]
    /\ user_info = [p \in Procs |-> <<>>]
    /\ user_service_breaker = [p \in Procs |-> GatewayBreakerInit]
    /\ resp = [p \in Procs |-> NoResponse]
    /\ fx = [p \in Procs |-> NoEffects]
    /\ kv_request = [r \in RequestIds |-> <<>>]
    /\ kv_notification = [n \in NotificationIds |-> <<>>]
    /\ kv_user = [u \in Users |-> <<>>]
    /\ kv_user_notifications = [u \in Users |-> [list |-> <<>>, expires |-> 0]]
    /\ status_result = [notification_id |-> None, success |-> FALSE]
    /\ queues = [q \in QueueNames |-> <<>>]
    /\ push_job = <<>>
    /\ push_processed = {}
    /\ acked = {}
    /\ status_posts = {}
    /\ email_sent = {}
    /\ directory_failures = 0
    /\ retry_run = [behaviour |-> <<>>, invocations |-> 0, result |-> None]
    /\ backoff = [attempt |-> 0, delay |-> retry_initial_delay]
    /\ rendered = [subject |-> <<>>, body |-> <<>>, variables |-> DictValue(<<>>),
                   result |-> [subject |-> <<>>, body |-> <<>>]]
    /\ kv_ratelimit = <<>>
    /\ rate_call = [r \in RateRequests |-> IdleRateCall]
    /\ rate_window = [start |-> NoTime, admitted |-> 0]
    /\ gateway_breaker = GatewayBreakerInit
    /\ gateway_inflight = 0
    /\ gateway_call = <<>>
    /\ email_delay = [retry_count |-> 0, base |-> 1, exponential |-> FALSE,
                      delay |-> 1]
    /\ email_template_cache = <<>>
    /\ email_content = <<>>

NextBreaker ==
    \/ CallBegin
    \/ CallReturns
    \/ CallRaises
    \/ BreakerTick

SpecBreaker == Init /\ [][NextBreaker]_vars

NextGatewayBreaker ==
    \/ GatewayCanExecute
    \/ GatewayRecordSuccess
    \/ GatewayRecordFailure
    \/ GatewayTick

SpecGatewayBreaker == Init /\ [][NextGatewayBreaker]_vars

\* The requests explored: creates carry the first texts, updates change the
\* subject, the body, or neither.
CreateInputs == {<<"s1", "b1">>}
UpdateInputs == {<<"s2", None>>, <<None, "b2">>, <<None, None>>}

\* Requests whose texts have placeholders: well formed, with an unclosed
\* brace, with a placeholder that is no variable name.
SyntaxCreateInputs ==
    {<<"s1", "Hi {{name}}">>, <<"s1", "Hi {{name">>, <<"Hi {{na me}}", "b1">>}
SyntaxUpdateInputs ==
    {<<"s2", None>>, <<None, "Hi {{name">>, <<None, "Hi {{na me}}">>}

TemplateOpsWith(clients, keys, creates, updates) ==
    \/ \E c \in clients, key \in keys, data \in creates :
          CreateCheck(c, key, data[1], data[2])
    \/ \E c \in clients : CreateSave(c)
    \/ \E c \in clients, key \in keys, data \in updates :
          UpdateQuery(c, key, data[1], data[2])
    \/ \E c \in clients : UpdateCommit(c)
    \/ \E c \in clients, key \in keys : DeleteQuery(c, key)
    \/ \E c \in clients : DeleteCommit(c)

TemplateOps(clients, keys) ==
    TemplateOpsWith(clients, keys, CreateInputs, UpdateInputs)

\* Concurrent create, update and delete requests on every template.
NextTemplate == TemplateOps(Clients, TemplateKeys)

SpecTemplate == Init /\ [][NextTemplate]_vars

\* Concurrent requests on welcome/en whose texts have placeholders.
NextTemplateSyntax ==
    TemplateOpsWith(Clients, {<<"welcome", "en">>}, SyntaxCreateInputs,
                    SyntaxUpdateInputs)

SpecTemplateSyntax == Init /\ [][NextTemplateSyntax]_vars

\* One client's requests on welcome/en, with reads through the cache.
NextTemplateCache ==
    \/ TemplateOps({"c1"}, {<<"welcome", "en">>})
    \/ \E version \in Versions : Get(<<"welcome", "en">>, version)
    \/ \E version \in Versions : CacheExpire(<<<<"welcome", "en">>, version>>)

SpecTemplateCache == Init /\ [][NextTemplateCache]_vars

Requests(types, users, request_ids, priorities) ==
    [notification_type : types, user_id : users, request_id : request_ids,
     priority : priorities]

CreateNotification(procs, requests) ==
    \/ \E p \in procs, request \in requests : Submit(p, request)
    \/ \E p \in procs : CheckIdempotency(p)
    \/ \E p \in procs, outcome \in {"200", "error"} : ResolveUser(p, outcome)
    \/ \E p \in procs, published \in BOOLEAN : Publish(p, published)
    \/ \E p \in procs : StoreStatus(p)
    \/ \E p \in procs : StoreIndex(p)
    \/ \E p \in procs : StoreIdempotency(p)

\* Concurrent submits of one request_id by every kind of user.
NextSubmit ==
    CreateNotification(Procs,
        Requests(NotificationTypes, {"u1", "u2", "u3"}, {"r1"},
                   {PRIORITY_ROUTING_FROM}))

SpecSubmit == Init /\ [][NextSubmit]_vars

\* Concurrent submits of one request_id, with a Redis that may fail under the
\* user index and a process that may die.
NextPersist ==
    \/ CreateNotification(Procs,
          Requests(NotificationTypes, {"u1", "u2", "u3"}, {"r1"},
                   {PRIORITY_ROUTING_FROM}))
    \/ \E p \in Procs : StoreIndexRaises(p)
    \/ \E p \in Procs : Crash(p)

SpecPersist == Init /\ [][NextPersist]_vars

\* Calls of the retry handler.
NextRetry ==
    \/ \E behaviour \in Behaviours : WithRetryCall(behaviour)
    \/ \E attempt \in 0..MaxBackoffAttempt : CalculateBackoffCall(attempt)

SpecRetry == Init /\ [][NextRetry]_vars

\* The template the template service holds for the email worker's
\* (template_code, language).
EmailTemplate ==
    [subject |-> <<Text("Hello")>>,
     body |-> <<Text("Hi "), Placeholder(<<"name">>, <<>>, <<>>, FALSE)>>]

\* validate_message: a message without variables, or with an empty map, is
\* rejected before the template is fetched.
EmailVariableMaps == VariableMaps \ {DictValue(<<>>)}

\* get_cached_template: redis.get_json of the key; None when the key is
\* absent or expired, or when the read raises.
GetCachedTemplate(cache_reads) ==
    IF cache_reads /\ email_template_cache # <<>>
                   /\ now < email_template_cache[1].expires
    THEN <<email_template_cache[1].data>>
    ELSE <<>>

\* fetch_template_from_service: POST /api/v1/templates/render, which renders
\* the stored template with the request's variables.
FetchTemplateFromService(variables, service_ok) ==
    IF service_ok
    THEN <<RenderTemplateWithVariables(EmailTemplate.subject, EmailTemplate.body,
                                       variables)>>
    ELSE <<>>

\* cache_template: redis.set_json(cache_key, template_data, ttl=3600); a
\* write that raises stores nothing.
CacheTemplate(template_data, cache_writes) ==
    IF cache_writes
    THEN <<[data |-> template_data, expires |-> now + TemplateCacheTtl]>>
    ELSE email_template_cache

\* fetch_and_render_template, then render_template_step and send_email_step,
\* which send the subject and body of the template_content as they are.
FetchAndRenderTemplate(variables, cache_reads, service_ok, cache_writes) ==
    LET cached_template == GetCachedTemplate(cache_reads)
        template_result == FetchTemplateFromService(variables, service_ok)
    IN  /\ IF cached_template # <<>>
           THEN /\ email_content' = <<[variables |-> variables,
                                       sent |-> cached_template[1],
                                       cached |-> TRUE]>>
                /\ UNCHANGED email_template_cache
           ELSE IF template_result = <<>>
           THEN /\ email_content' = <<>>
                /\ UNCHANGED email_template_cache
           ELSE /\ email_template_cache' =
                       CacheTemplate(template_result[1], cache_writes)
                /\ email_content' = <<[variables |-> variables,
                                       sent |-> template_result[1],
                                       cached |-> FALSE]>>
        /\ UNCHANGED <<now, cbVars, tmplVars, ingressVars, workerVars,
                       retryVars, renderVars, rateVars, gatewayBreakerVars,
                       email_delay>>

\* Time passes on the email worker's Redis.
EmailCacheTick ==
    /\ now < MaxEmailCacheTicks * EmailCacheTickSeconds
    /\ now' = now + EmailCacheTickSeconds
    /\ UNCHANGED <<cbVars, tmplVars, ingressVars, workerVars, retryVars,
                   renderVars, rateVars, gatewayBreakerVars, emailVars>>

\* Calls of the email worker's delay calculation.
NextEmailRetry ==
    \E retry_count \in 0..MaxEmailRetryCount, base \in RetryDelaySeconds,
       exponential \in BOOLEAN :
        CalculateRetryDelayCall(retry_count, base, exponential)

SpecEmailRetry == Init /\ [][NextEmailRetry]_vars

\* Messages of one (template_code, language) through the email worker.
NextEmailTemplate ==
    \/ \E variables \in EmailVariableMaps,
          cache_reads \in BOOLEAN, service_ok \in BOOLEAN,
          cache_writes \in BOOLEAN :
           FetchAndRenderTemplate(variables, cache_reads, service_ok,
                                  cache_writes)
    \/ EmailCacheTick

SpecEmailTemplate == Init /\ [][NextEmailTemplate]_vars

\* Requests of one identifier through the rate limiter.
NextRate ==
    \/ \E r \in RateRequests :
          \/ RateGet(r)
          \/ RateFirst(r)
          \/ RateExceeded(r)
          \/ RateReject(r)
          \/ RateIncr(r)
          \/ RateReturn(r)
    \/ RateTick

SpecRate == Init /\ [][NextRate]_vars

\* The same requests with a Redis whose commands may raise.
NextRateFaults ==
    \/ NextRate
    \/ \E r \in RateRequests : RateRaises(r)

SpecRateFaults == Init /\ [][NextRateFaults]_vars

\* Calls of the template renderer.
NextRender ==
    \E body \in Templates, variables \in VariableMaps : RenderCall(body, variables)

SpecRender == Init /\ [][NextRender]_vars

\* Successive submits, one after the other.
NextDirectory ==
    \/ CreateNotification({1},
          Requests(NotificationTypes, {"u1", "u2", "u3"}, {"r1"},
                   {PRIORITY_ROUTING_FROM}))
    \/ Return(1)

SpecDirectory == Init /\ [][NextDirectory]_vars

\* Concurrent submits and the passing of time.
NextIngress ==
    \/ NextSubmit
    \/ IngressTick

SpecIngress == Init /\ [][NextIngress]_vars

\* One notification, the workers' status posts and the passing of time.
NextStatus ==
    \/ CreateNotification({1},
          Requests({"email"}, {"u1"}, {"r1"}, {PRIORITY_ROUTING_FROM}))
    \/ \E n \in {NotificationId(1), "r1"}, status \in NotificationStatus,
         error \in {None, "error"} :
          UpdateNotificationStatus(n, status, error)
    \/ IngressTick

SpecStatus == Init /\ [][NextStatus]_vars

\* One submit of every type and priority for a user with both channels.
NextRouting ==
    CreateNotification({1}, Requests(NotificationTypes, {"u1"}, {"r1"}, Priorities))

SpecRouting == Init /\ [][NextRouting]_vars

\* Submits for a user with both channels, and the two workers.
NextWorker ==
    \/ CreateNotification(Procs,
          Requests(NotificationTypes, {"u1"}, {"r1"}, {0, 4, PRIORITY_ROUTING_FROM}))
    \/ \E queue \in EmailQueues, result \in {"sent", "template", "send"} :
          HandleMessage(queue, result, "200")
    \/ \E outcome \in {"200", "error"} : PushReceive(outcome, "200")
    \/ \E fcm \in {"ok", "RetryableError", "NonRetryableError"} :
          PushAttempt(fcm, "200", TRUE)

SpecWorker == Init /\ [][NextWorker]_vars

\* One submit of either type, for a user with both channels or for one whose
\* push token is short, a garbled body from another publisher, and the two
\* workers with every answer of the provider, the status route and the broker.
NextDelivery ==
    \/ CreateNotification({1},
          Requests(NotificationTypes, {"u1", "u4"}, {"r1"}, {4}))
    \/ \E queue \in {"email.queue", "push.queue"} : PublishGarbled(queue)
    \/ \E queue \in EmailQueues, result \in {"sent", "template", "send"},
          answer \in {"200", "error"} :
          HandleMessage(queue, result, answer)
    \/ \E outcome \in {"200", "error"}, answer \in {"200", "error"} :
          PushReceive(outcome, answer)
    \/ \E fcm \in {"ok", "RetryableError", "NonRetryableError"},
          answer \in {"200", "error"}, published \in BOOLEAN :
          PushAttempt(fcm, answer, published)

SpecDelivery == Init /\ [][NextDelivery]_vars

\* Submits of either type on either side of the priority threshold, and the
\* consumers the two workers start: one per email queue, one for push.queue.
NextConsume ==
    \/ CreateNotification(Procs,
          Requests(NotificationTypes, {"u1"}, {"r1"}, {4, PRIORITY_ROUTING_FROM}))
    \/ \E queue \in EmailQueues, result \in {"sent", "send"} :
          HandleMessage(queue, result, "200")
    \/ \E outcome \in {"200", "error"} : PushReceive(outcome, "200")
    \/ \E fcm \in {"ok", "RetryableError", "NonRetryableError"} :
          PushAttempt(fcm, "200", TRUE)

\* The workers run: a consumer with a delivery on its queue handles it, and
\* a send in hand is attempted.
ConsumersRun ==
    /\ \A queue \in EmailQueues :
          WF_vars(\E result \in {"sent", "send"} :
                     HandleMessage(queue, result, "200"))
    /\ WF_vars(\E outcome \in {"200", "error"} : PushReceive(outcome, "200"))
    /\ WF_vars(\E fcm \in {"ok", "RetryableError", "NonRetryableError"} :
                  PushAttempt(fcm, "200", TRUE))

SpecConsume == Init /\ [][NextConsume]_vars /\ ConsumersRun

(***************************************************************************)
(* Claims about the gateway's ingress.                                     *)
(***************************************************************************)
\* The broker holds a message published by call p.
Published(p) ==
    \E q \in QueueNames : \E i \in 1..Len(queues[q]) :
        queues[q][i].body.notification_id = NotificationId(p)

\* Call p has started, q is another call with the same request.
SameRequest(p, q) ==
    p # q /\ pc[p] # "idle" /\ pc[q] # "idle" /\ req[p] = req[q]

\* C1: ingress idempotency. Calls of create_notification with one
\* request_id make at most one broker publish and at most one
\* NotificationRecord between them, and those that succeed answer with one
\* notification_id.
C1_IngressIdempotency ==
    \A p, q \in Procs :
        SameRequest(p, q) =>
            /\ ~(Published(p) /\ Published(q))
            /\ ~(/\ kv_notification[NotificationId(p)] # <<>>
                 /\ kv_notification[NotificationId(q)] # <<>>)
            /\ (resp[p].success /\ resp[q].success =>
                    resp[p].notification_id = resp[q].notification_id)

\* C2: a call that makes its idempotency lookup while request:{request_id}
\* exists ends there: it answers "already processed" with the stored
\* notification_id, and writes and publishes nothing.
C2_ExistingKeyEndsTheCall ==
    [][\A p \in Procs :
          (/\ pc[p] = "check_idempotency"
           /\ pc'[p] # "check_idempotency"
           /\ kv_request[req[p].request_id] # <<>>)
          => /\ pc'[p] = "done"
             /\ resp'[p].success
             /\ resp'[p].kind = "already_processed"
             /\ resp'[p].notification_id =
                    kv_request[req[p].request_id][1].notification_id
             /\ fx'[p] = fx[p]
             /\ UNCHANGED <<kvVars, queues>>]_vars

\* C11: once failure_threshold user-directory calls in a row have failed,
\* the next call that needs the directory (its user is not cached) fails
\* with UserServiceUnavailable and does not call the directory.
C11_BreakerAcrossRequests ==
    [][\A p \in Procs :
          (/\ pc[p] = "get_user_info"
           /\ pc'[p] # "get_user_info"
           /\ directory_failures >= CIRCUIT_BREAKER_FAILURE_THRESHOLD
           /\ kv_user[req[p].user_id] = <<>>)
          => /\ resp'[p].kind = "UserServiceUnavailable"
             /\ fx'[p].directory_calls = fx[p].directory_calls]_vars

\* The user that call p resolved has disabled the channel p asks for.
ChannelDisabled(p) ==
    /\ user_info[p] # <<>>
    /\ ~user_info[p][1].preferences[req[p].notification_type]

\* C3: a call whose resolved user has disabled the requested channel fails
\* with BlockedByPreference; it publishes nothing and creates no
\* NotificationRecord, no user-index entry and no IdempotencyRecord.
C3_PreferenceGateTerminal ==
    \A p \in Procs :
        ChannelDisabled(p) =>
            /\ pc[p] = "done"
            /\ ~resp[p].success
            /\ resp[p].kind = "BlockedByPreference"
            /\ fx[p].publishes = 0
            /\ fx[p].record_writes = 0
            /\ fx[p].index_writes = 0
            /\ fx[p].idempotency_writes = 0
            /\ ~Published(p)
            /\ kv_notification[NotificationId(p)] = <<>>
            /\ \A u \in Users : \A i \in 1..Len(kv_user_notifications[u].list) :
                   kv_user_notifications[u].list[i] # NotificationId(p)
            /\ \A r \in RequestIds :
                   kv_request[r] # <<>> =>
                       kv_request[r][1].notification_id # NotificationId(p)

C3_Witness ==
    \E p \in Procs :
        /\ ChannelDisabled(p)
        /\ req[p].notification_type = "push"
        /\ resp[p].kind = "BlockedByPreference"

\* The routing key and the queue that the priority rule names.
ExpectedKey(t, priority) ==
    IF priority >= 5
    THEN (IF t = "email" THEN "email.priority" ELSE "push.priority")
    ELSE t

ExpectedQueue(t, priority) ==
    IF priority >= 5
    THEN (IF t = "email" THEN "email.priority.queue" ELSE "push.priority.queue")
    ELSE (IF t = "email" THEN "email.queue" ELSE "push.queue")

\* C4: priority routing. A published message of type t and priority p is on
\* t.priority.queue when p >= 5 and on t.queue when p < 5, once, and on no
\* other queue; it carries that routing key and the priority header p.
C4_PriorityRouting ==
    \A p \in Procs :
        fx[p].publishes > 0 =>
            \A q \in QueueNames :
                LET t == req[p].notification_type
                    priority == req[p].priority
                    copies == {i \in 1..Len(queues[q]) :
                        queues[q][i].body.notification_id = NotificationId(p)}
                IN  IF q = ExpectedQueue(t, priority)
                    THEN /\ Cardinality(copies) = 1
                         /\ \A i \in copies :
                               /\ queues[q][i].priority = priority
                               /\ queues[q][i].routing_key = ExpectedKey(t, priority)
                               /\ queues[q][i].body.notification_type = t
                    ELSE copies = {}

C4_Witness ==
    /\ Len(queues["email.priority.queue"]) = 1
    /\ queues["email.priority.queue"][1].priority = 5
    /\ queues["email.priority.queue"][1].routing_key = "email.priority"

\* C6: once a NotificationRecord holds delivered or failed, no step changes
\* its status while the record lives.
C6_TerminalStatusKept ==
    [][\A n \in NotificationIds :
          (/\ kv_notification[n] # <<>>
           /\ kv_notification[n][1].status \in {"delivered", "failed"}
           /\ kv_notification'[n] # <<>>)
          => kv_notification'[n][1].status = kv_notification[n][1].status]_vars

(***************************************************************************)
(* Claims about the workers.                                               *)
(***************************************************************************)
\* The copies of notification n on a queue.
Copies(queue, n) ==
    {i \in 1..Len(queues[queue]) : queues[queue][i].body.notification_id = n}

\* A worker still has notification n to work on: on a work queue or in hand.
InWork(n) ==
    \/ \E queue \in QueueNames \ {"failed.queue"} : Copies(queue, n) # {}
    \/ push_job # <<>> /\ push_job[1].delivery.body.notification_id = n

\* C12: the push worker gives a message up as "retries exhausted" only after
\* more than max_retry_attempts provider sends have failed: R retryable
\* failures are followed by a send R+1, whose success delivers the message.
C12_RetriedUntilDelivered ==
    [][(/\ push_job # <<>>
        /\ push_job[1].sends = push_job[1].attempt
        /\ CallAdmits(fcm_circuit_breaker, now)
        /\ \E a \in acked' \ acked : a.outcome = "retries_exhausted")
       => push_job[1].sends + 1 > max_retry_attempts]_vars

\* The retryable failures a behaviour starts with, up to max_retry_attempts.
RECURSIVE LeadingRetryable(_, _)
LeadingRetryable(behaviour, i) ==
    IF i > max_retry_attempts \/ behaviour[i] # "RetryableError" THEN 0
    ELSE 1 + LeadingRetryable(behaviour, i + 1)

\* C13: with_retry invokes a function that fails retryably f < max_attempts
\* times and then succeeds f+1 times and returns its result; an exception of
\* another type ends the call at once, with no further invocation; after
\* max_attempts retryable failures the RetryableError is surfaced.
C13_WithRetry ==
    retry_run.invocations > 0 =>
        LET f == LeadingRetryable(retry_run.behaviour, 1)
        IN  IF f >= max_retry_attempts
            THEN /\ retry_run.invocations = max_retry_attempts
                 /\ retry_run.result = "RetryableError"
            ELSE /\ retry_run.invocations = f + 1
                 /\ retry_run.result = retry_run.behaviour[f + 1]
                 /\ retry_run.result # "RetryableError"

C13_Witness ==
    /\ retry_run.invocations = 3
    /\ retry_run.result = "ok"
    /\ retry_run.behaviour[1] = "RetryableError"
    /\ retry_run.behaviour[2] = "RetryableError"

\* C14: calculate_backoff(n) is min(initial_delay * exponential_base^n,
\* max_delay); over attempts 0..k the delays never decrease, never exceed
\* max_delay, and increase strictly while below max_delay.
C14_BackoffMonotone ==
    /\ backoff.delay =
          (IF retry_initial_delay * retry_exponential_base ^ backoff.attempt
                <= retry_max_delay
           THEN retry_initial_delay * retry_exponential_base ^ backoff.attempt
           ELSE retry_max_delay)
    /\ backoff.delay <= retry_max_delay
    /\ \A n \in 0..(backoff.attempt - 1) :
          /\ CalculateBackoff(n) <= backoff.delay
          /\ CalculateBackoff(n) <= CalculateBackoff(n + 1)
          /\ (CalculateBackoff(n) < retry_max_delay =>
                  CalculateBackoff(n) < CalculateBackoff(n + 1))

C14_Witness ==
    /\ backoff.attempt = 6
    /\ backoff.delay = retry_max_delay

\* C15: every status post a worker issues for a message carries that
\* message's notification_id, and a post the status route accepted has left
\* the message's NotificationRecord with the posted status.
C15_StatusPostById ==
    \A post \in status_posts :
        /\ post.notification_id = post.message_id
        /\ (post.accepted /\ kv_notification[post.message_id] # <<>> =>
                kv_notification[post.message_id][1].status = post.status)

\* The push worker takes the delivery at the head of push.queue.
PushReceives ==
    /\ push_job = <<>>
    /\ queues["push.queue"] # <<>>
    /\ queues'["push.queue"] = Tail(queues["push.queue"])

\* The push worker acks the received delivery as a duplicate and does nothing
\* else: no provider send, no status post, no DLQ publish.
AckedAndSkipped ==
    /\ acked' = acked \cup
          {[service |-> "push",
            notification_id |-> Head(queues["push.queue"]).body.notification_id,
            outcome |-> "duplicate"]}
    /\ push_job' = <<>>
    /\ UNCHANGED <<status_posts, fcm_circuit_breaker, push_processed,
                   kv_notification>>
    /\ queues'["failed.queue"] = queues["failed.queue"]

C5_DLQCompleteness ==
    \A a \in acked :
        (a.outcome \notin {"delivered", "duplicate"} /\ ~InWork(a.notification_id))
        => Cardinality(Copies("failed.queue", a.notification_id)) = 1

(***************************************************************************)
(* Claims about the template service.                                      *)
(***************************************************************************)
KeyRows(key) == {i \in DOMAIN rows : rows[i].key = key}

MaxVersion(key) ==
    CHOOSE v \in {rows[i].version : i \in KeyRows(key)} :
        \A i \in KeyRows(key) : rows[i].version <= v

\* The table as a create followed by updates leaves it for `key`: one row per
\* version, the newest one active.
CreatedAndUpdated(key) ==
    /\ KeyRows(key) # {}
    /\ \A i, j \in KeyRows(key) : rows[i].version = rows[j].version => i = j
    /\ \A i \in KeyRows(key) :
          rows[i].is_active <=> rows[i].version = MaxVersion(key)

\* C7: versioning. After a create and N updates of (code, language),
\* get(code, language, version=k) returns version k with the subject and body
\* that version was written with, for every version k written, and
\* get(code, language) returns the highest version.
C7_Versioning ==
    \A key \in TemplateKeys :
        CreatedAndUpdated(key) =>
            /\ \A i \in KeyRows(key) :
                  LET got == GetTemplateService(key, rows[i].version)
                  IN  /\ got.success
                      /\ got.data[1].version = rows[i].version
                      /\ got.data[1].subject = rows[i].subject
                      /\ got.data[1].body = rows[i].body
            /\ LET got == GetTemplateService(key, Latest)
               IN  /\ got.success
                   /\ got.data[1].version = MaxVersion(key)

\* C8: at most one row per (template_code, language) has is_active = true,
\* after any interleaving of create, update and delete requests.
C8_AtMostOneActive ==
    \A key \in TemplateKeys : Cardinality(ActiveIds(key)) <= 1

\* C9: once every update and delete of (code, language) has completed, a
\* get(code, language) served from the cache returns the template the
\* database holds as the active one: never the one from before an update,
\* never a deleted one.
C9_CacheInvalidated ==
    \A key \in TemplateKeys :
        (\A c \in Clients : tclient[c].pc = "idle") =>
            LET got == GetTemplateService(key, Latest)
                current == QueryTemplate(key, Latest)
            IN  got.from_cache =>
                    /\ current.kind = "one"
                    /\ got.data = <<TemplateToDict(current.id)>>


(***************************************************************************)
(* Claims about the FCM circuit breaker.                                   *)
(***************************************************************************)
\* A step that starts a call(), and a step in which the protected function ends.
CallStarts == cb_inflight = None /\ now' = now
               /\ (cb_inflight' # None \/ cb_outcome' = "CircuitBreakerOpenError")
CallEnds == cb_inflight # None /\ cb_inflight' = None

RecoveryElapsed ==
    /\ fcm_circuit_breaker.last_failure_time # NoTime
    /\ now - fcm_circuit_breaker.last_failure_time >= circuit_breaker_recovery_timeout

\* C10: the breaker's state machine. Starting closed, the call that makes
\* failure_threshold consecutive failures leaves the breaker open; a call on an
\* open breaker is rejected without invoking the function until
\* recovery_timeout has elapsed since the last failure, and is then admitted in
\* half_open; a success in half_open closes the breaker with failure_count 0, a
\* failure in half_open opens it again; a success in closed returns the
\* function's result and resets failure_count to 0.
C10_BreakerStateMachine ==
    [][ /\ (CallEnds /\ cb_inflight = "raises"
              /\ cb_consecutive_failures' >= circuit_breaker_failure_threshold)
           => fcm_circuit_breaker'.state = "open"
        /\ (CallStarts /\ fcm_circuit_breaker.state = "open" /\ ~RecoveryElapsed)
           => /\ cb_outcome' = "CircuitBreakerOpenError"
              /\ cb_inflight' = None
              /\ fcm_circuit_breaker' = fcm_circuit_breaker
        /\ (CallStarts /\ fcm_circuit_breaker.state = "open" /\ RecoveryElapsed)
           => /\ cb_inflight' # None
              /\ fcm_circuit_breaker'.state = "half_open"
        /\ (CallStarts /\ fcm_circuit_breaker.state = "closed")
           => /\ cb_inflight' # None
              /\ fcm_circuit_breaker' = fcm_circuit_breaker
        /\ (CallEnds /\ cb_inflight = "returns"
              /\ fcm_circuit_breaker.state = "half_open")
           => /\ fcm_circuit_breaker'.state = "closed"
              /\ fcm_circuit_breaker'.failure_count = 0
        /\ (CallEnds /\ cb_inflight = "raises"
              /\ fcm_circuit_breaker.state = "half_open")
           => fcm_circuit_breaker'.state = "open"
        /\ (CallEnds /\ cb_inflight = "returns"
              /\ fcm_circuit_breaker.state = "closed")
           => /\ cb_outcome' = "returned"
              /\ fcm_circuit_breaker'.state = "closed"
              /\ fcm_circuit_breaker'.failure_count = 0
      ]_vars

\* The breaker opened, recovery_timeout elapsed, and a trial call is running.
C10_Witness ==
    /\ fcm_circuit_breaker.state = "half_open"
    /\ cb_inflight # None
    /\ fcm_circuit_breaker.failure_count >= circuit_breaker_failure_threshold

(***************************************************************************)
(* Rendering                                                               *)
(***************************************************************************)
NoFilters(template) ==
    \A i \in DOMAIN template : template[i].inner.filters = <<>>

Missing == [kind |-> "missing", text |-> <<>>, items |-> <<>>]

\* What a placeholder stands for: the value at its path, else its default,
\* else the placeholder itself; the filters, in order, on a value or default.
Substituted(piece, variables) ==
    LET value == GetNestedValue(variables, piece.inner.var, Missing)
        word == IF value.kind # "missing" THEN ToStr(value)
                ELSE IF piece.inner.default # <<>>
                     THEN <<Text(piece.inner.default[1])>>
                     ELSE <<>>
    IN  IF piece.kind = "text" \/ word = <<>> THEN <<piece>>
        ELSE [i \in DOMAIN word |->
                 IF word[i].kind = "text"
                 THEN Text(ApplyFilters(word[i].text, piece.inner.filters))
                 ELSE word[i]]

RECURSIVE SubstitutedAll(_, _)
SubstitutedAll(template, variables) ==
    IF template = <<>> THEN <<>>
    ELSE Substituted(Head(template), variables)
         \o SubstitutedAll(Tail(template), variables)

\* C17: a rendered subject or body without placeholders is returned
\* unchanged; every placeholder {{var}}, dot-paths included, whose path is in
\* the variables is replaced by its value, a missing path with a default by
\* the default, and a missing path without a default stays as it was written.
C17_TemplateRoundTrip ==
    NoFilters(rendered.body)
        => /\ rendered.result.subject = rendered.subject
           /\ rendered.result.body
                  = SubstitutedAll(rendered.body, rendered.variables)

\* C18: the filters of a placeholder are applied left to right to the
\* resolved value, or to the default when the variable is missing:
\* name|upper|default:"Guest" without a name renders GUEST and name|upper
\* with a name renders the name in upper case.
C18_FiltersApplied ==
    (\A i \in DOMAIN rendered.body :
        rendered.body[i].kind = "placeholder"
            => /\ ~rendered.body[i].padded
               /\ rendered.body[i].inner.filters # <<>>)
        => rendered.result.body
               = SubstitutedAll(rendered.body, rendered.variables)

(***************************************************************************)
(* Rate limiting                                                           *)
(***************************************************************************)
Rejects(r) ==
    /\ rate_call[r].pc = "ttl"
    /\ rate_call'[r].pc = "done"

\* C19: for a rate-limit key at most RATE_LIMIT_PER_MINUTE requests are
\* admitted within 60 seconds, also when requests of the key run the check
\* concurrently, and a request beyond the quota is rejected with Retry-After
\* equal to the seconds that remain of the window.
C19_RateLimit ==
    [][ /\ rate_window'.admitted <= RATE_LIMIT_PER_MINUTE
        /\ \A r \in RateRequests :
              Rejects(r)
                  => /\ ~rate_call'[r].is_allowed
                     /\ rate_call'[r].retry_after
                            = rate_window.start + RATE_LIMIT_WINDOW_SECONDS - now
      ]_vars

(***************************************************************************)
(* create                                                                  *)
(***************************************************************************)
HasActiveRow(key) ==
    \E i \in DOMAIN rows : rows[i].key = key /\ rows[i].is_active

FailedSend == {"template", "send", "non_retryable", "retries_exhausted"}

\* C21: the ack of a failed message comes after its retry or DLQ message is
\* enqueued: a message a worker has acked after a failed send is on a work
\* queue again or on failed.queue, also when the DLQ publish fails.
C21_AckAfterEnqueue ==
    \A a \in acked :
        a.outcome \in FailedSend =>
            \E q \in QueueNames : Copies(q, a.notification_id) # {}

\* The email worker handles the delivery at the head of `queue` and its
\* pipeline fails.
EmailFails(queue) ==
    /\ queues[queue] # <<>>
    /\ \E a \in acked' \ acked :
          /\ a.service = "email"
          /\ a.outcome \in {"template", "send"}
          /\ a.notification_id = Head(queues[queue]).body.notification_id

\* The queue holds a message with this body.
Holds(qs, queue, body) ==
    \E i \in 1..Len(qs[queue]) : qs[queue][i].body = body

\* C22: a failure of the email pipeline with retry_count < max_retries puts
\* the message back on the queue it came from with retry_count + 1; with
\* retry_count >= max_retries the message goes to failed.queue instead.
C22_RetryRepublished ==
    [][\A queue \in EmailQueues :
          EmailFails(queue) =>
              LET message_data == Head(queues[queue]).body
              IN  IF message_data.retry_count < message_data.max_retries
                  THEN Holds(queues', queue,
                             [message_data EXCEPT !.retry_count = @ + 1])
                  ELSE Holds(queues', "failed.queue", message_data)]_vars

(***************************************************************************)
(* Claims about a submit that fails part of the way.                       *)
(***************************************************************************)
\* C23: a call of create_notification that answers success = false has
\* published no message.
C23_FailureWithoutPublish ==
    \A p \in Procs :
        (pc[p] = "done" /\ ~resp[p].success) => fx[p].publishes = 0

\* Nothing is stored for the notification of call p: no record, no entry of
\* a user's list, no idempotency record that names it.
NothingStored(p) ==
    /\ kv_notification[NotificationId(p)] = <<>>
    /\ \A u \in Users :
          \A i \in 1..Len(kv_user_notifications[u].list) :
              kv_user_notifications[u].list[i] # NotificationId(p)
    /\ \A r \in RequestIds :
          kv_request[r] # <<>> => kv_request[r][1].notification_id # NotificationId(p)

\* Call p runs the publish step and the broker takes no message.
PublishFails(p) ==
    /\ pc[p] = "publish"
    /\ pc'[p] \notin {"publish", "crashed"}
    /\ queues' = queues

\* C24: when the publish fails the call answers QueueUnavailable at once, the
\* step leaves the records, the user lists and the idempotency records as
\* they were, and nothing is stored for a call that answered QueueUnavailable.
C24_PublishFailure ==
    [][\A p \in Procs :
          /\ PublishFails(p) =>
                /\ pc'[p] = "done"
                /\ resp'[p] = [success |-> FALSE, kind |-> "QueueUnavailable",
                               notification_id |-> None, status |-> None]
                /\ UNCHANGED <<kv_notification, kv_user_notifications,
                               kv_request>>
          /\ resp'[p].kind = "QueueUnavailable" => NothingStored(p)']_vars

\* A publish has failed after the directory answered and was cached.
C24_Witness ==
    \E p \in Procs :
        /\ pc[p] = "done"
        /\ resp[p].kind = "QueueUnavailable"
        /\ fx[p].cache_writes = 1
        /\ kv_user[req[p].user_id] # <<>>
        /\ NothingStored(p)

\* C25: the idempotency record is written last: request:{request_id} exists
\* only if the call whose notification_id it stores has published its message
\* and stored notification:{notification_id} with status pending, wherever
\* a call has crashed.
C25_IdempotencyLast ==
    \A r \in RequestIds :
        kv_request[r] # <<>> =>
            \E p \in Procs :
                /\ NotificationId(p) = kv_request[r][1].notification_id
                /\ fx[p].publishes >= 1
                /\ fx[p].record_writes >= 1
                /\ kv_notification[NotificationId(p)] # <<>>
                /\ kv_notification[NotificationId(p)][1].status = "pending"

\* One call crashed between publish and the idempotency record, another
\* wrote its idempotency record.
C25_Witness ==
    \E p, q \in Procs :
        /\ pc[p] = "crashed" /\ fx[p].publishes = 1
        /\ fx[p].idempotency_writes = 0
        /\ pc[q] = "done" /\ fx[q].idempotency_writes = 1
        /\ kv_request[req[q].request_id] # <<>>

(***************************************************************************)
(* Claims about the push worker's permanent failures.                      *)
(***************************************************************************)
\* The push worker makes a provider send for a device token the provider
\* call refuses as invalid (`not device_token or len(device_token) < 10`).
SendsToInvalidToken ==
    /\ push_job # <<>>
    /\ Len(push_job[1].device_token) < 10
    /\ CallAdmits(fcm_circuit_breaker, now)
    /\ push_job' # push_job

\* C26: a provider send that fails with a non-retryable error (here: an
\* invalid device token) is the last send for the delivery: the worker
\* publishes the message to failed.queue once, posts status failed, writes
\* the idempotency marker and acks.
C26_NonRetryable ==
    [][SendsToInvalidToken =>
          LET delivery == push_job[1].delivery
              n == delivery.body.notification_id
          IN  /\ push_job' = <<>>
              /\ push_job[1].sends = 0
              /\ Len(queues'["failed.queue"]) = Len(queues["failed.queue"]) + 1
              /\ queues'["failed.queue"][Len(queues'["failed.queue"])].body
                    = delivery.body
              /\ \E s \in status_posts' :
                    /\ s.service = "push" /\ s.message_id = n
                    /\ s.status = "failed"
              /\ delivery.body.request_id \in push_processed'
              /\ \E a \in acked' \ acked :
                    a.service = "push" /\ a.notification_id = n]_vars

(***************************************************************************)
(* Claims about the queues the workers consume.                            *)
(***************************************************************************)
\* C27: with the workers running, a message on a work queue, standard or
\* priority, is eventually consumed: no work queue stays non-empty forever.
C27_EventuallyConsumed ==
    \A queue \in QueueNames \ {"failed.queue"} :
        (queues[queue] # <<>>) ~> (queues[queue] = <<>>)

(***************************************************************************)
(* Claims about deliveries that do not parse.                              *)
(***************************************************************************)
\* C28: a delivery whose body does not parse is a permanent failure in both
\* workers: once a worker has settled it, it is on no work queue again and on
\* failed.queue exactly once.
C28_MalformedToDLQ ==
    \A a \in acked :
        a.notification_id = GarbledBody.notification_id =>
            /\ \A queue \in QueueNames \ {"failed.queue"} :
                  Copies(queue, a.notification_id) = {}
            /\ Cardinality(Copies("failed.queue", a.notification_id)) = 1

(***************************************************************************)
(* Claims about the status post.                                           *)
(***************************************************************************)
\* C29: a status post that fails after a provider send that succeeded does
\* not alter the outcome: the delivery is acked as delivered, it is on no
\* work queue again and not on failed.queue, and no worker has settled it as
\* a failure.
C29_StatusPostBestEffort ==
    \A s \in status_posts :
        (s.status = "delivered" /\ ~s.accepted) =>
            /\ \E a \in acked :
                  /\ a.service = s.service
                  /\ a.notification_id = s.message_id
                  /\ a.outcome = "delivered"
            /\ \A a \in acked :
                  a.notification_id = s.message_id => a.outcome = "delivered"
            /\ \A queue \in QueueNames : Copies(queue, s.message_id) = {}

\* The email worker has sent a message and its status post has failed.
C29_Witness ==
    \E s \in status_posts :
        /\ s.service = "email"
        /\ s.status = "delivered" /\ ~s.accepted
        /\ s.message_id \in {e.notification_id : e \in email_sent}
        /\ \E a \in acked :
              a.notification_id = s.message_id /\ a.outcome = "delivered"

(***************************************************************************)
(* Claims about the email worker's idempotency.                            *)
(***************************************************************************)
\* C30: the email worker acks and skips a delivery whose request_id it has
\* already concluded: the provider send is made at most once for a
\* request_id.
C30_EmailSentOnce ==
    \A e1, e2 \in email_sent :
        e1.request_id = e2.request_id => e1 = e2

(***************************************************************************)
(* Claims about the gateway's circuit breaker.                             *)
(***************************************************************************)
\* C31: a call attempted while the gateway's breaker is open is admitted,
\* moving the breaker to half_open, exactly when at least recovery_timeout
\* has elapsed since last_failure_time, and is rejected otherwise.
C31_OpenToHalfOpen ==
    \A c \in {gateway_call[i] : i \in DOMAIN gateway_call} :
        c.before.state = "open" =>
            /\ c.ok <=> (c.at - c.before.last_failure_time
                            >= CIRCUIT_BREAKER_RECOVERY_TIMEOUT)
            /\ c.ok => c.after.state = "half_open"
            /\ ~c.ok => c.after = c.before

(***************************************************************************)
(* Claims about the email worker's retry delay.                            *)
(***************************************************************************)
\* C32: the email worker's retry delay for retry count n is base * 2^n
\* capped at the maximum delay: no delay it computes exceeds the maximum
\* (retry_max_delay, the only maximum delay the repository configures).
C32_EmailDelayCapped ==
    /\ email_delay.exponential =>
          email_delay.delay =
              Min(email_delay.base * (2 ^ email_delay.retry_count),
                  retry_max_delay)
    /\ email_delay.delay <= retry_max_delay

(***************************************************************************)
(* Claims about the syntax of stored templates.                            *)
(***************************************************************************)
\* C33: create and update reject a subject or body with unbalanced braces or
\* with a placeholder that is no variable name: no row of the table holds
\* such a text.
C33_SyntaxValidated ==
    \A i \in DOMAIN rows :
        /\ ValidateTemplateSyntax(rows[i].subject)
        /\ ValidateTemplateSyntax(rows[i].body)

(***************************************************************************)
(* Claims about placeholders written with inner blanks.                    *)
(***************************************************************************)
\* The template with every placeholder written without inner blanks.
Unpadded(template) ==
    [i \in DOMAIN template |-> [template[i] EXCEPT !.padded = FALSE]]

\* The path of the placeholder is in the variables.
Present(piece, variables) ==
    GetNestedValue(variables, piece.inner.var, Missing).kind # "missing"

\* C34: placeholders are matched with their inner content stripped: a body
\* with a placeholder written with inner blanks, {{ name }}, whose variable
\* is present renders exactly as the same body written {{name}} does.
C34_PaddedPlaceholder ==
    (/\ \E i \in DOMAIN rendered.body : rendered.body[i].padded
     /\ \A i \in DOMAIN rendered.body :
           rendered.body[i].padded => Present(rendered.body[i], rendered.variables))
        => rendered.result.body
               = RenderString(Unpadded(rendered.body), rendered.variables)

(***************************************************************************)
(* Claims about the rate limiter under Redis errors and expiry.            *)
(***************************************************************************)
\* C35: rate limiting fails open: a request whose rate-limit check met a
\* Redis error, at whichever command, is allowed and handed to the handler,
\* never answered with 429.
C35_FailOpen ==
    \A r \in RateRequests :
        rate_call[r].raised =>
            /\ rate_call[r].pc = "done"
            /\ rate_call[r].is_allowed
            /\ Dispatch(rate_call[r].is_allowed) = "call_next"

\* A request that had read a count at the quota met the error at TTL.
C35_Witness ==
    \E r \in RateRequests :
        /\ rate_call[r].raised
        /\ rate_call[r].current_count >= RATE_LIMIT_PER_MINUTE
        /\ rate_call[r].is_allowed

\* C36: under every interleaving of rate-limit checks and key expiry the
\* counter ratelimit:{identifier} carries a TTL of at most 60 seconds, so
\* that a throttled identifier is admitted again once its window expires.
C36_CounterHasTTL ==
    kv_ratelimit # <<>> =>
        /\ kv_ratelimit[1].expires # NoTime
        /\ kv_ratelimit[1].expires <= now + RATE_LIMIT_WINDOW_SECONDS

\* C37: the subject and body the email worker sends for a message are the
\* template rendered with that message's own variables, also when an earlier
\* message of the same (template_code, language) with other variables was
\* processed within the hour the cache keeps an entry.
C37_OwnVariables ==
    email_content # <<>> =>
        email_content[1].sent =
            RenderTemplateWithVariables(EmailTemplate.subject,
                                        EmailTemplate.body,
                                        email_content[1].variables)

\* The relation between a breaker's state, its failure count and its last
\* failure time.
BreakerConsistent(cb, threshold) ==
    /\ cb.state = "closed" => cb.failure_count < threshold
    /\ cb.state \in {"open", "half_open"} =>
           /\ cb.failure_count >= threshold
           /\ cb.last_failure_time # NoTime

NonRetryableFailure ==
    /\ push_job # <<>>
    /\ CallAdmits(fcm_circuit_breaker, now)
    /\ \E a \in acked' \ acked :
          a.service = "push" /\ a.outcome = "non_retryable"

\* C39: a provider call that fails with a non-retryable error (an invalid or
\* unregistered device token, an invalid message) leaves the FCM breaker's
\* state and failure_count as they were; only transient provider failures
\* move the breaker towards open.
C39_NonRetryableNotCounted ==
    [][(NonRetryableFailure \/ SendsToInvalidToken) =>
          /\ fcm_circuit_breaker'.state = fcm_circuit_breaker.state
          /\ fcm_circuit_breaker'.failure_count =
                fcm_circuit_breaker.failure_count]_vars

\* The rows of `key` inserted up to and including row i.
RowsUpTo(key, i) == {j \in KeyRows(key) : j <= i}

\* C40: for each (template_code, language) no two rows share a version and the
\* versions present are 1..n in creation order, whatever creates, updates and
\* deletes have run: the k-th row inserted for the key has version k.
C40_VersionsSequential ==
    \A key \in TemplateKeys :
        \A i \in KeyRows(key) :
            rows[i].version = Cardinality(RowsUpTo(key, i))

====
